---- MODULE Spec2Model ----
(***************************************************************************)
(* Model of the folder batch pipeline of the TUI PGP tool (Menu class):    *)
(* encryptFolder / decryptFolder, the recursive directory walker           *)
(* listFilesRecursive, the output path derivation and the collision        *)
(* policy.                                                                 *)
(*                                                                         *)
(* Path strings are sequences of one-character strings, so that the        *)
(* string operations of the code (startsWith, join, resolve, relative,     *)
(* extname, toLowerCase) are modelled by what they do to the characters.   *)
(***************************************************************************)
EXTENDS Integers, Sequences, FiniteSets, TLC

\* ------------------------------------------------------------------------
\* Bounds of the model
\* ------------------------------------------------------------------------

\* number of times the same batch may be run in one behaviour
MaxRuns == 2

\* number of engine and write failures the environment may cause in one
\* behaviour
MaxFaults == 2

\* ------------------------------------------------------------------------
\* Characters and strings
\* ------------------------------------------------------------------------

\* path.sep on POSIX
sep == "/"

Dot == "."

NoPath == <<>>

Alphabet ==
  << "/", ".", "-", "2", "~",
     "A", "C", "D", "F", "G", "P", "S", "T", "X",
     "a", "b", "c", "d", "e", "f", "g", "h", "i", "k", "l", "n", "o", "p",
     "r", "s", "t", "u", "x", "y" >>

CharRank(c) == CHOOSE i \in 1..Len(Alphabet) : Alphabet[i] = c

\* String.prototype.toLowerCase, one character
lowerChar(c) ==
  CASE c = "A" -> "a"
    [] c = "C" -> "c"
    [] c = "D" -> "d"
    [] c = "F" -> "f"
    [] c = "G" -> "g"
    [] c = "P" -> "p"
    [] c = "S" -> "s"
    [] c = "T" -> "t"
    [] c = "X" -> "x"
    [] OTHER -> c

toLowerCase(s) == [i \in 1..Len(s) |-> lowerChar(s[i])]

\* the elements of a sequence (Array.prototype.includes tests membership)
Range(q) == {q[i] : i \in 1..Len(q)}

\* String.prototype.startsWith
startsWith(s, p) == Len(p) <= Len(s) /\ SubSeq(s, 1, Len(p)) = p

\* String.prototype.endsWith
endsWith(s, p) ==
  Len(p) <= Len(s) /\ SubSeq(s, Len(s) - Len(p) + 1, Len(s)) = p

\* lexicographic order on strings, used as the enumeration order of readdir
RECURSIVE LexLess(_, _)
LexLess(a, b) ==
  IF a = <<>> THEN b # <<>>
  ELSE IF b = <<>> THEN FALSE
  ELSE IF a[1] = b[1] THEN LexLess(Tail(a), Tail(b))
  ELSE CharRank(a[1]) < CharRank(b[1])

\* the elements of a finite set of strings as a sequence in lexicographic order
RECURSIVE SortedSeq(_)
SortedSeq(S) ==
  IF S = {} THEN <<>>
  ELSE LET m == CHOOSE a \in S : \A b \in S \ {a} : LexLess(a, b)
       IN <<m>> \o SortedSeq(S \ {m})

\* ------------------------------------------------------------------------
\* node:path on POSIX
\* ------------------------------------------------------------------------

\* the pieces of s between separators (empty pieces included)
RECURSIVE SplitFrom(_, _, _)
SplitFrom(s, i, cur) ==
  IF i > Len(s) THEN <<cur>>
  ELSE IF s[i] = sep THEN <<cur>> \o SplitFrom(s, i + 1, <<>>)
  ELSE SplitFrom(s, i + 1, Append(cur, s[i]))

Split(s) == SplitFrom(s, 1, <<>>)

\* normalizeString of node:path: drops empty and "." segments, ".." removes
\* the segment before it (above the root it is dropped)
RECURSIVE NormSegs(_, _)
NormSegs(segs, acc) ==
  IF segs = <<>> THEN acc
  ELSE LET s == Head(segs) IN
       IF s = <<>> \/ s = <<Dot>> THEN NormSegs(Tail(segs), acc)
       ELSE IF s = <<Dot, Dot>>
            THEN NormSegs(Tail(segs),
                          IF acc = <<>> THEN acc ELSE SubSeq(acc, 1, Len(acc) - 1))
            ELSE NormSegs(Tail(segs), Append(acc, s))

RECURSIVE JoinSegs(_)
JoinSegs(segs) ==
  IF segs = <<>> THEN <<>>
  ELSE <<sep>> \o Head(segs) \o JoinSegs(Tail(segs))

\* the segments of an absolute path
Segs(p) == NormSegs(Split(p), <<>>)

isAbsolute(p) == p # <<>> /\ p[1] = sep

pathOfSegs(segs) == IF segs = <<>> THEN <<sep>> ELSE JoinSegs(segs)

\* path.resolve(base, p) for an absolute base
resolve2(base, p) ==
  pathOfSegs(Segs(IF isAbsolute(p) THEN p ELSE base \o <<sep>> \o p))

\* process.cwd() and os.homedir() of the modelled process
Cwd == <<sep>>

Home == <<sep, "h">>

\* path.resolve(p)
resolve(p) == resolve2(Cwd, p)

\* path.join(a, b) for an absolute a
join(a, b) == resolve2(a, a \o <<sep>> \o b)

\* path.dirname of an absolute path
dirnameOfSegs(segs) ==
  IF Len(segs) <= 1 THEN <<sep>> ELSE JoinSegs(SubSeq(segs, 1, Len(segs) - 1))

dirname(p) == dirnameOfSegs(Segs(p))

\* path.basename
basenameOfSegs(segs) == IF segs = <<>> THEN <<>> ELSE segs[Len(segs)]

basename(p) == basenameOfSegs(Segs(p))

\* the position of the last "." of b, 0 when it has none
RECURSIVE lastDot(_, _)
lastDot(b, i) ==
  IF i = 0 THEN 0 ELSE IF b[i] = Dot THEN i ELSE lastDot(b, i - 1)

\* path.extname: from the last "." of the last segment to its end; empty when
\* there is no "." or the only "." is the segment's first character
extnameOfBase(b, last) ==
  IF last <= 1 THEN <<>> ELSE SubSeq(b, last, Len(b))

extnameOfName(b) == extnameOfBase(b, lastDot(b, Len(b)))

extname(p) == extnameOfName(basename(p))

\* path.relative(from, to) for absolute paths with to below from (the only
\* use in the batch: to is a walked file of from)
relativeOfSegs(f, t, to) ==
  IF Len(f) <= Len(t) /\ SubSeq(t, 1, Len(f)) = f
  THEN IF Len(f) = Len(t) THEN <<>>
       ELSE Tail(JoinSegs(SubSeq(t, Len(f) + 1, Len(t))))
  ELSE <<Dot, Dot>> \o to

relative(from, to) == relativeOfSegs(Segs(from), Segs(to), to)

\* Menu.resolveInputPath
resolveInputPath(inputPath) ==
  IF startsWith(inputPath, <<"~", sep>>)
  THEN resolve2(Home, SubSeq(inputPath, 3, Len(inputPath)))
  ELSE resolve2(Cwd, inputPath)

\* String.prototype.trim: leading and trailing white space removed
RECURSIVE trimStart(_)
trimStart(s) ==
  IF s # <<>> /\ Head(s) = " " THEN trimStart(Tail(s)) ELSE s

RECURSIVE trimEnd(_)
trimEnd(s) ==
  IF s # <<>> /\ s[Len(s)] = " " THEN trimEnd(SubSeq(s, 1, Len(s) - 1)) ELSE s

trim(s) == trimEnd(trimStart(s))

\* ------------------------------------------------------------------------
\* Path names of the model
\* ------------------------------------------------------------------------

P_fsroot == <<sep>>

\* the input root /t and its entries
P_t == <<sep, "t">>

P_a == P_t \o <<sep, "a", ".", "t", "x", "t">>

P_c == P_t \o <<sep, "c", ".", "p", "g", "p">>

F_c_asc == P_t \o <<sep, "c", ".", "a", "s", "c">>

P_s == P_t \o <<sep, "s">>

P_b == P_s \o <<sep, "b", ".", "a", "s", "c">>

P_l == P_t \o <<sep, "l">>

P_k == P_t \o <<sep, "k">>

\* an output root nested in the input root, with an output left there earlier
P_o == P_t \o <<sep, "o">>

P_o_a == P_o \o <<sep, "a", ".", "t", "x", "t", ".", "a", "s", "c">>

\* a sibling of /t/o whose name begins with "o"
P_o2 == P_t \o <<sep, "o", "2">>

P_d == P_o2 \o <<sep, "d", ".", "a", "s", "c">>

\* a regular file and a missing path at the top level
P_f == <<sep, "f">>

P_x == <<sep, "x">>

\* ------------------------------------------------------------------------
\* The file system
\* ------------------------------------------------------------------------

\* fs maps each existing path to its node: kind is "dir", "file", "link" or
\* "socket"; a directory with readable = FALSE makes readdir fail (EACCES);
\* tag/src describe a regular file's content: "plain" (an input file),
\* "old" (an output left by something else), "out" (the complete output
\* written for input src), "partial" (an output whose write failed midway).
Dir(r) == [kind |-> "dir", readable |-> r, tag |-> "", src |-> <<>>]

File(t, s) == [kind |-> "file", readable |-> TRUE, tag |-> t, src |-> s]

Other(k) == [kind |-> k, readable |-> TRUE, tag |-> "", src |-> <<>>]

Exists(f, p) == p \in DOMAIN f

KindOf(f, p) == IF Exists(f, p) THEN f[p].kind ELSE "none"

\* f with node n at path p (added or replaced)
Put(f, p, n) == [q \in DOMAIN f \cup {p} |-> IF q = p THEN n ELSE f[q]]

\* fs.stat(p).isDirectory() inside try/catch
isDirectory(f, pathValue) == KindOf(f, pathValue) = "dir"

\* Bun.file(p).exists(): true for an existing regular file
fileExists(f, p) == KindOf(f, p) = "file"

\* ------------------------------------------------------------------------
\* State
\* ------------------------------------------------------------------------

VARIABLES
  fs,            \* the file system
  pc,            \* "idle", "loop" (inside the per-file loop), "done" (the
                 \* folder operation returned), "threw" (it raised to show())
  cfg,           \* the answers to the prompts of the running folder operation
  filteredFiles, \* the task list
  idx,           \* position of the next task of the per-file loop
  processedCount,\* encryptedCount / decryptedCount
  skippedCount,
  failures,
  signatureFailures, \* decryptFolder: files written whose signature failed
  errorsShown,   \* number of displayError calls of the running operation
  log,           \* per visited task: what was observed (history)
  run,           \* number of the running batch, 1 for the first
  fsAtStart,     \* the file system when the running operation began (history)
  prevRun,       \* task list of the previous run (history)
  faults,        \* engine, write and signature failures caused so far
                 \* (history)
  walkRoot,      \* arguments and result of the last listFilesRecursive call
  walkExclude,
  walkResult,
  fnPath,        \* a file path and a typed extension filter, and the last
  fnFilter,      \* call of a naming / format helper made on them with its
  fnCall,        \* result
  wcall,         \* the arguments of the running writeOutputToFile call
  wpc,           \* its position
  source,        \* the chunks its streamed artifact produces, and how the
  srcEnd,        \* stream ends after them: "done" or "error"
  chunk,         \* `value`: index in source of the chunk held, 0 for none
  pending,       \* writes whose promise has not settled yet
  reader,        \* "none", "locked", "released"
  writer,        \* "none", "open", "ended"
  thrown,        \* the error the call is about to raise, "" for none
  wlog           \* the reads, writes and releases made so far (history)

vars ==
  << fs, pc, cfg, filteredFiles, idx, processedCount, skippedCount, failures,
     signatureFailures, errorsShown, log, run, fsAtStart, prevRun, faults,
     walkRoot, walkExclude,
     walkResult, fnPath, fnFilter, fnCall, wcall, wpc, source, srcEnd, chunk,
     pending, reader, writer, thrown, wlog >>

walkVars == << walkRoot, walkExclude, walkResult >>

fnVars == << fnPath, fnFilter, fnCall >>

streamVars ==
  << wcall, wpc, source, srcEnd, chunk, pending, reader, writer, thrown, wlog >>

streamVars_but_wpc ==
  << wcall, source, srcEnd, chunk, pending, reader, writer, thrown, wlog >>

batchVars ==
  << pc, cfg, filteredFiles, idx, processedCount, skippedCount, failures,
     signatureFailures, errorsShown, log, run, fsAtStart, prevRun, faults >>

\* ------------------------------------------------------------------------
\* Directory walk
\* ------------------------------------------------------------------------

\* readdir(dir, {withFileTypes: true}) rejects for a missing path (ENOENT),
\* a path that is not a directory (ENOTDIR) and an unreadable one (EACCES)
readdirOk(f, dir) == KindOf(f, dir) = "dir" /\ f[dir].readable

\* the names of the entries of dir, in enumeration order
readdir(f, dir) ==
  SortedSeq({basename(p) : p \in {q \in DOMAIN f : q # dir /\ dirname(q) = dir}})

\* a walk that swallows the readdir error and returns what it has
WalkThrew_swallowed(reads) == [ok |-> TRUE, files |-> <<>>, reads |-> reads]

\* the result of a walk that threw
WalkThrew(reads) == [ok |-> FALSE, files |-> <<>>, reads |-> reads]

\* the exclusion test without its equality half
isExcludedEntry_noEq(normalizedExclude, resolvedEntry) ==
  /\ normalizedExclude # NoPath
  /\ startsWith(resolvedEntry, normalizedExclude \o <<sep>>)

\* the exclusion test made on the characters alone, without the separator
isExcludedEntry_prefix(normalizedExclude, resolvedEntry) ==
  /\ normalizedExclude # NoPath
  /\ startsWith(resolvedEntry, normalizedExclude)

\* the exclusion test of listFilesRecursive
isExcludedEntry(normalizedExclude, resolvedEntry) ==
  /\ normalizedExclude # NoPath
  /\ \/ resolvedEntry = normalizedExclude
     \/ startsWith(resolvedEntry, normalizedExclude \o <<sep>>)

\* Dirent.isDirectory() / Dirent.isFile(): the entry's own type, a symbolic
\* link is neither
entryIsDirectory(f, entryPath) == KindOf(f, entryPath) = "dir"

\* "everything that is not a directory is a file"
entryIsFile_notDir(f, entryPath) == KindOf(f, entryPath) # "dir"

entryIsFile(f, entryPath) == KindOf(f, entryPath) = "file"

\* Menu.listFilesRecursive; reads lists the directories handed to readdir
RECURSIVE listFilesRecursive(_, _, _)
RECURSIVE walkEntries(_, _, _, _, _, _, _)
walkEntries(f, rootDir, normalizedExclude, entries, i, files, reads) ==
  IF i > Len(entries) THEN [ok |-> TRUE, files |-> files, reads |-> reads]
  ELSE
    LET entryPath == join(rootDir, entries[i])
        resolvedEntry == resolve(entryPath)
    IN IF isExcludedEntry(normalizedExclude, resolvedEntry)
       THEN walkEntries(f, rootDir, normalizedExclude, entries, i + 1, files, reads)
       ELSE IF entryIsDirectory(f, entryPath)
       THEN LET sub == listFilesRecursive(f, entryPath, normalizedExclude)
            IN IF ~sub.ok THEN WalkThrew(reads \o sub.reads)
               ELSE walkEntries(f, rootDir, normalizedExclude, entries, i + 1,
                                files \o sub.files, reads \o sub.reads)
       ELSE IF entryIsFile(f, entryPath)
       THEN walkEntries(f, rootDir, normalizedExclude, entries, i + 1,
                        Append(files, entryPath), reads)
       ELSE walkEntries(f, rootDir, normalizedExclude, entries, i + 1, files, reads)

listFilesRecursive(f, rootDir, excludeDir) ==
  LET normalizedExclude == IF excludeDir # NoPath THEN resolve(excludeDir) ELSE NoPath
  IN IF ~readdirOk(f, rootDir) THEN WalkThrew(<<rootDir>>)
     ELSE walkEntries(f, rootDir, normalizedExclude, readdir(f, rootDir), 1,
                      <<>>, <<rootDir>>)

NoWalk == [ok |-> FALSE, files |-> <<>>, reads |-> <<>>]

\* ------------------------------------------------------------------------
\* Initial file systems
\* ------------------------------------------------------------------------

\* most regular files an initial tree holds below the input root
MaxFiles == 2

BaseTree ==
  (P_fsroot :> Dir(TRUE)) @@ (P_t :> Dir(TRUE)) @@ (P_f :> File("plain", <<>>))
  @@ (P_a :> File("plain", <<>>)) @@ (P_l :> Other("link"))
  @@ (P_k :> Other("socket"))

EmptyTree == [q \in {} |-> Dir(TRUE)]

TreeOf(withC, withSub, subReadable, withOut, withOut2) ==
  BaseTree
  @@ (IF withC THEN (P_c :> File("plain", <<>>)) ELSE EmptyTree)
  @@ (IF withSub
      THEN (P_s :> Dir(subReadable)) @@ (P_b :> File("plain", <<>>))
      ELSE EmptyTree)
  @@ (IF withOut
      THEN (P_o :> Dir(TRUE)) @@ (P_o_a :> File("old", <<>>))
      ELSE EmptyTree)
  @@ (IF withOut2
      THEN (P_o2 :> Dir(TRUE)) @@ (P_d :> File("plain", <<>>))
      ELSE EmptyTree)

\* an input root holding the armored and the binary encryption of one file
PairTree ==
  (P_fsroot :> Dir(TRUE)) @@ (P_t :> Dir(TRUE)) @@ (P_f :> File("plain", <<>>))
  @@ (P_c :> File("plain", <<>>)) @@ (F_c_asc :> File("plain", <<>>))

RegularFilesBelow(f, root) ==
  {p \in DOMAIN f : f[p].kind = "file" /\ startsWith(p, root \o <<sep>>)}

Trees ==
  {t \in {TreeOf(c, s, r, o, o2) : c, s, r, o, o2 \in BOOLEAN} \cup {PairTree} :
     Cardinality(RegularFilesBelow(t, P_t)) <= MaxFiles}

\* ------------------------------------------------------------------------
\* The walker on its own
\* ------------------------------------------------------------------------

WalkRoots == {P_t, P_s, P_o, P_f, P_x}

WalkExcludes ==
  {NoPath, P_o, P_o \o <<sep>>, P_s, P_t, P_fsroot, P_a, P_x, P_o2}

NoCfg == [op |-> "none"]

InitBatchVars ==
  /\ pc = "idle"
  /\ cfg = NoCfg
  /\ filteredFiles = <<>>
  /\ idx = 1
  /\ processedCount = 0
  /\ skippedCount = 0
  /\ failures = <<>>
  /\ signatureFailures = <<>>
  /\ errorsShown = 0
  /\ log = <<>>
  /\ run = 0
  /\ prevRun = [tasks |-> <<>>, ran |-> FALSE]
  /\ faults = 0

InitWalkVars ==
  /\ walkRoot = NoPath
  /\ walkExclude = NoPath
  /\ walkResult = NoWalk

NoCall == [fn |-> "none"]

InitFnVars ==
  /\ fnPath = NoPath
  /\ fnFilter = <<>>
  /\ fnCall = NoCall

InitStreamVars ==
  /\ wcall = NoCall
  /\ wpc = "idle"
  /\ source = <<>>
  /\ srcEnd = "done"
  /\ chunk = 0
  /\ pending = 0
  /\ reader = "none"
  /\ writer = "none"
  /\ thrown = ""
  /\ wlog = <<>>

Init ==
  /\ fs \in Trees
  /\ fsAtStart = fs
  /\ InitBatchVars
  /\ InitWalkVars
  /\ InitFnVars
  /\ InitStreamVars

\* one call of listFilesRecursive(rootDir, excludeDir)
WalkCall(rootDir, excludeDir) ==
  /\ walkRoot' = rootDir
  /\ walkExclude' = excludeDir
  /\ walkResult' = listFilesRecursive(fs, rootDir, excludeDir)
  /\ fnCall' = NoCall
  /\ UNCHANGED fs
  /\ UNCHANGED batchVars
  /\ UNCHANGED <<fnPath, fnFilter, streamVars>>

\* ------------------------------------------------------------------------
\* Filters and output names
\* ------------------------------------------------------------------------

\* String.prototype.split(c)
RECURSIVE splitOn(_, _, _, _)
splitOn(s, c, i, cur) ==
  IF i > Len(s) THEN <<cur>>
  ELSE IF s[i] = c THEN <<cur>> \o splitOn(s, c, i + 1, <<>>)
  ELSE splitOn(s, c, i + 1, Append(cur, s[i]))

MapSeq(q, Op(_)) == [i \in 1..Len(q) |-> Op(q[i])]

\* the filter built from the tokens as they were typed, not lower-cased
parseExtensionFilter_asTyped(input, defaults) ==
  LET raw == SelectSeq(MapSeq(splitOn(input, ",", 1, <<>>), trim),
                       LAMBDA value : value # <<>>)
  IN IF Len(raw) = 0 THEN defaults
     ELSE MapSeq(raw, LAMBDA value :
                   IF startsWith(value, <<Dot>>) THEN value
                   ELSE <<Dot>> \o value)

\* Menu.parseExtensionFilter
parseExtensionFilter(input, defaults) ==
  LET raw == SelectSeq(MapSeq(splitOn(input, ",", 1, <<>>), trim),
                       LAMBDA value : value # <<>>)
  IN IF Len(raw) = 0 THEN defaults
     ELSE MapSeq(raw, LAMBDA value :
                   IF startsWith(value, <<Dot>>) THEN toLowerCase(value)
                   ELSE <<Dot>> \o toLowerCase(value))

Ext_asc == <<".", "a", "s", "c">>

Ext_pgp == <<".", "p", "g", "p">>

Ext_gpg == <<".", "g", "p", "g">>

Suffix_decrypted == <<".", "d", "e", "c", "r", "y", "p", "t", "e", "d">>

\* a replacement that removes up to two encrypted extensions
replaceEncryptedSuffix_twice(pathValue, low) ==
  LET once == IF endsWith(low, Ext_pgp) \/ endsWith(low, Ext_gpg) \/ endsWith(low, Ext_asc)
              THEN Len(pathValue) - 4 ELSE Len(pathValue)
      lowOnce == SubSeq(low, 1, once)
  IN IF endsWith(lowOnce, Ext_pgp) \/ endsWith(lowOnce, Ext_gpg) \/ endsWith(lowOnce, Ext_asc)
     THEN SubSeq(pathValue, 1, once - 4)
     ELSE SubSeq(pathValue, 1, once)

\* pathValue.replace(/\.(pgp|gpg|asc)$/i, '')
replaceEncryptedSuffix(pathValue, low) ==
  IF endsWith(low, Ext_pgp) \/ endsWith(low, Ext_gpg) \/ endsWith(low, Ext_asc)
  THEN SubSeq(pathValue, 1, Len(pathValue) - 4)
  ELSE pathValue

\* the stripped path returned without the fallback marker
strippedOrMarked_noMark(pathValue, stripped) == stripped

strippedOrMarked(pathValue, stripped) ==
  IF stripped # pathValue THEN stripped ELSE pathValue \o Suffix_decrypted

\* Menu.stripEncryptedExtension
stripEncryptedExtension(pathValue) ==
  strippedOrMarked(pathValue, replaceEncryptedSuffix(pathValue, toLowerCase(pathValue)))

\* the suggestion made with a case-sensitive match of the extension
suggestDecryptedOutputPath_caseSensitive(inputPath) ==
  LET stripped == replaceEncryptedSuffix(inputPath, inputPath)
  IN IF stripped # inputPath THEN stripped ELSE inputPath \o Suffix_decrypted

\* Menu.suggestDecryptedOutputPath
suggestDecryptedOutputPath(inputPath) ==
  LET stripped == replaceEncryptedSuffix(inputPath, toLowerCase(inputPath))
  IN IF stripped # inputPath THEN stripped ELSE inputPath \o Suffix_decrypted

\* the format resolved from the extension as it is spelled
resolveInputFormat_caseSensitive(filePath, mode) ==
  IF mode = "armored" THEN "armored"
  ELSE IF mode = "binary" THEN "binary"
  ELSE IF extname(filePath) = Ext_asc THEN "armored" ELSE "binary"

\* Menu.resolveInputFormat
resolveInputFormat(filePath, mode) ==
  IF mode = "armored" THEN "armored"
  ELSE IF mode = "binary" THEN "binary"
  ELSE LET extension == toLowerCase(extname(filePath))
       IN IF extension = Ext_asc THEN "armored"
          ELSE IF extension = Ext_pgp \/ extension = Ext_gpg THEN "binary"
          ELSE "binary"

\* decryptFolder: the default extension filter of a format handling
defaultFilter(formatHandling) ==
  IF formatHandling = "armored" THEN <<Ext_asc>>
  ELSE IF formatHandling = "binary" THEN <<Ext_pgp, Ext_gpg>>
  ELSE <<Ext_pgp, Ext_gpg, Ext_asc>>

\* encryptFolder: the added extension of an output format
outputExtension(outputFormat) == IF outputFormat = "armored" THEN Ext_asc ELSE Ext_pgp

\* extensionFilter.includes(extname(filePath).toLowerCase())
matchesFilter(extensionFilter, filePath) ==
  toLowerCase(extname(filePath)) \in Range(extensionFilter)

\* the filtered task list of encryptFolder (all files when the filter is empty)
\* and of decryptFolder (always filtered)
filterFiles(op, extensionFilter, files) ==
  IF op = "encrypt" /\ Len(extensionFilter) = 0 THEN files
  ELSE SelectSeq(files, LAMBDA filePath : matchesFilter(extensionFilter, filePath))

\* an output path made from the file's name alone, its directories dropped
outputPathOfRel_flat(c, relPath) ==
  IF c.op = "encrypt"
  THEN join(c.outputDir, basename(<<sep>> \o relPath) \o outputExtension(c.format))
  ELSE join(c.outputDir, basename(<<sep>> \o stripEncryptedExtension(relPath)))

\* the output path of a relative path in encryptFolder and in decryptFolder
outputPathOfRel(c, relPath) ==
  IF c.op = "encrypt"
  THEN join(c.outputDir, relPath \o outputExtension(c.format))
  ELSE join(c.outputDir, stripEncryptedExtension(relPath))

\* the per-file output path
outputPathOf(c, filePath) == outputPathOfRel(c, relative(c.inputDir, filePath))

\* ------------------------------------------------------------------------
\* File system effects
\* ------------------------------------------------------------------------

\* dir and the paths above it
prefixPaths(segs) == {JoinSegs(SubSeq(segs, 1, n)) : n \in 1..Len(segs)}

AncestorsAndSelf(dir) == prefixPaths(Segs(dir))

\* mkdir(dir, {recursive: true}) rejects when dir or a path above it exists
\* and is not a directory
mkdirOkOn(f, paths) == \A q \in paths : Exists(f, q) => KindOf(f, q) = "dir"

mkdirOk(f, dir) ==
  KindOf(f, dir) = "dir" \/ mkdirOkOn(f, AncestorsAndSelf(dir))

\* mkdir(dir, {recursive: true}): every missing directory down to dir is made
mkdirMissing(f, paths) ==
  [q \in DOMAIN f \cup paths |-> IF q \in DOMAIN f THEN f[q] ELSE Dir(TRUE)]

mkdirRecursive(f, dir) ==
  IF KindOf(f, dir) = "dir" THEN f ELSE mkdirMissing(f, AncestorsAndSelf(dir))

\* writeOutputToFile reaching its destination: the file holds content
writeFile(f, outputPath, content) == Put(f, outputPath, content)

\* a destination that cannot be opened as a file
writeTargetOk(f, outputPath) == KindOf(f, outputPath) \in {"none", "file"}

\* ------------------------------------------------------------------------
\* One iteration of the per-file loop
\* ------------------------------------------------------------------------

\* what the environment does to one file's processing once the engine is
\* invoked: "ok", "engineErr" (pgp.encryptFile / decryptFile rejects),
\* "writeErr" (writeOutputToFile rejects before anything reaches the
\* destination), "writeErrPartial" (it rejects after part of the output
\* reached the destination)
EnvOutcomes == {"ok", "engineErr", "writeErr", "writeErrPartial"}

\* decryptFolder with signature verification: the engine may also return
\* the data with verified = false ("badSignature"); under "ok" verified is
\* true or undefined
envsOf(c) ==
  IF c.op = "decrypt" /\ c.verifySignatures
  THEN EnvOutcomes \cup {"badSignature"}
  ELSE EnvOutcomes

\* calls of openpgp.decryptKey made by one call of the engine:
\* pgp.decryptFile unlocks the private key on every call, pgp.encryptFile
\* unlocks the signing key on every call that signs
keyUnlocks(c) == IF c.op = "decrypt" \/ c.sign THEN 1 ELSE 0

\* a test that never reports a signature failure
signatureFailed_never(verifySignatures, verifiedIsFalse) == FALSE

\* `verifySignatures && result.verified === false`
signatureFailed(verifySignatures, verifiedIsFalse) ==
  verifySignatures /\ verifiedIsFalse

Msg_abort == "Output file exists; aborting batch."

\* the skip branch without its `continue`
collisionBranch_skipFallsThrough(exists, outputPolicy) ==
  IF exists /\ outputPolicy = "abort" THEN "throw" ELSE "proceed"

\* the branch taken when the output file exists or not:
\* "skip" (continue), "throw" (throw new Error(Msg_abort)) or "proceed"
collisionBranch(exists, outputPolicy) ==
  IF exists /\ outputPolicy = "skip" THEN "skip"
  ELSE IF exists /\ outputPolicy = "abort" THEN "throw"
  ELSE "proceed"

\* a per-file catch that throws the error on
perFileCatch_rethrow(error) == [control |-> "raise", push |-> FALSE]

\* a per-file catch that drops the error
perFileCatch_drop(error) == [control |-> "continue", push |-> FALSE]

\* the per-file catch: the error is pushed onto failures and the loop goes on
perFileCatch(error) == [control |-> "continue", push |-> TRUE]

\* the loop body up to the collision check: output path, mkdir, exists()
checked(filePath, outputPath, f1, exists, outputPolicy) ==
  [file |-> filePath, outputPath |-> outputPath, mkdirFailed |-> FALSE,
   fs |-> f1, exists |-> exists, branch |-> collisionBranch(exists, outputPolicy)]

checkedOn(filePath, outputPath, f1, outputPolicy) ==
  checked(filePath, outputPath, f1, fileExists(f1, outputPath), outputPolicy)

prepareIn(f, c, filePath, outputPath, dir) ==
  IF ~mkdirOk(f, dir)
  THEN [file |-> filePath, outputPath |-> outputPath, mkdirFailed |-> TRUE,
        fs |-> f, exists |-> FALSE, branch |-> "none"]
  ELSE checkedOn(filePath, outputPath, mkdirRecursive(f, dir), c.outputPolicy)

prepareAt(f, c, filePath, outputPath) ==
  prepareIn(f, c, filePath, outputPath, dirname(outputPath))

prepare(f, c, filePath) == prepareAt(f, c, filePath, outputPathOf(c, filePath))

\* the engine and the write are reached
reachesEngine(prep) == ~prep.mkdirFailed /\ prep.branch = "proceed"

\* the body of the loop after the collision check, under outcome env
loopBody(prep, env) ==
  LET base == [file |-> prep.file, outputPath |-> prep.outputPath, env |-> env,
               existed |-> prep.exists, engine |-> FALSE, wrote |-> FALSE,
               aborted |-> FALSE, error |-> "", result |-> "failed",
               stored |-> "none", verifiedIsFalse |-> FALSE, fs |-> prep.fs]
  IN IF prep.mkdirFailed THEN [base EXCEPT !.error = "mkdir"]
     ELSE IF prep.branch = "skip" THEN [base EXCEPT !.result = "skipped"]
     ELSE IF prep.branch = "throw"
     THEN [base EXCEPT !.aborted = TRUE, !.error = Msg_abort]
     ELSE IF env = "engineErr"
     THEN [base EXCEPT !.engine = TRUE, !.error = "engine"]
     ELSE IF env = "writeErr" \/ ~writeTargetOk(prep.fs, prep.outputPath)
     THEN [base EXCEPT !.engine = TRUE, !.wrote = TRUE, !.error = "write"]
     ELSE IF env = "writeErrPartial"
     THEN [base EXCEPT !.engine = TRUE, !.wrote = TRUE, !.error = "write",
                       !.stored = "partial",
                       !.fs = writeFile(prep.fs, prep.outputPath,
                                        File("partial", prep.file))]
     ELSE [base EXCEPT !.engine = TRUE, !.wrote = TRUE, !.result = "processed",
                       !.stored = "out",
                       !.verifiedIsFalse = (env = "badSignature"),
                       !.fs = writeFile(prep.fs, prep.outputPath,
                                        File("out", prep.file))]

\* ------------------------------------------------------------------------
\* encryptFolder / decryptFolder
\* ------------------------------------------------------------------------

In_t == <<" ", sep, "t">>

In_o == <<sep, "t", sep, "o", sep>>

In_filter == <<" ", ".", "T", "X", "T", ",", "a", "s", "c", " ">>

InputDirInputs == {In_t, P_f, P_x}

OutputDirInputs == {<<>>, In_o, P_t, P_f}

ExtensionInputs == {<<>>, In_filter}

Policies == {"overwrite", "skip", "abort"}

FormatsOf(op) ==
  IF op = "encrypt" THEN {"armored", "binary"} ELSE {"auto", "armored", "binary"}

\* answers to the prompts of one folder operation
AnswersOf(o, inputDirs, outputDirs, extensions, policies, signs, verifies) ==
  [op : {o}, inputDirInput : inputDirs, outputDirInput : outputDirs,
   extensionInput : extensions, format : FormatsOf(o), outputPolicy : policies,
   sign : signs, verifySignatures : verifies]

\* the answers to the prompts: every combination of folders, filter, format
\* and policy without signing and without verification, and signing and
\* verification with the default output folder and filter
Answers ==
  AnswersOf("encrypt", InputDirInputs, OutputDirInputs, ExtensionInputs,
            Policies, {FALSE}, {FALSE})
  \cup AnswersOf("encrypt", {In_t}, {<<>>}, {<<>>}, {"overwrite"}, {TRUE}, {FALSE})
  \cup AnswersOf("decrypt", InputDirInputs, OutputDirInputs, ExtensionInputs,
                 Policies, {FALSE}, {FALSE})
  \cup AnswersOf("decrypt", {In_t}, {<<>>}, {<<>>}, Policies, {FALSE}, {TRUE})

Suffix_encrypted == <<"-", "e", "n", "c", "r", "y", "p", "t", "e", "d">>

Suffix_decryptedDir == <<"-", "d", "e", "c", "r", "y", "p", "t", "e", "d">>

\* `${inputDir}-encrypted` / `${inputDir}-decrypted`
defaultOutputDir(op, inputDir) ==
  inputDir \o (IF op = "encrypt" THEN Suffix_encrypted ELSE Suffix_decryptedDir)

\* the resolved configuration of a run
configOf(a) ==
  LET inputDir == resolveInputPath(trim(a.inputDirInput))
      typed == trim(a.outputDirInput)
  IN [op |-> a.op,
      answers |-> a,
      inputDir |-> inputDir,
      outputDir |-> resolveInputPath(IF typed # <<>> THEN typed
                                     ELSE defaultOutputDir(a.op, inputDir)),
      extensionFilter |-> parseExtensionFilter(a.extensionInput,
                            IF a.op = "encrypt" THEN <<>> ELSE defaultFilter(a.format)),
      format |-> a.format,
      outputPolicy |-> a.outputPolicy,
      sign |-> a.sign,
      verifySignatures |-> a.verifySignatures]

\* the empty check made on the unfiltered list
noFilesMatched_unfiltered(files, filtered) == Len(files) = 0

\* filteredFiles.length === 0
noFilesMatched(files, filtered) == Len(filtered) = 0

\* the walk made without the exclude argument
walkOf_noExclude(f, c) == listFilesRecursive(f, c.inputDir, NoPath)

\* this.listFilesRecursive(inputDir, outputDir)
walkOf(f, c) == listFilesRecursive(f, c.inputDir, c.outputDir)

\* the operation after its walk succeeded: the filter and the empty check
beginFiltered(c, walk, filtered) ==
  /\ filteredFiles' = filtered
  /\ IF noFilesMatched(walk.files, filtered)
     THEN \* displayError('No files matched your filter.'); return
          /\ errorsShown' = 1
          /\ pc' = "done"
     ELSE /\ errorsShown' = 0
          /\ pc' = "loop"

\* the operation after the input root was found to be a directory: the walk
beginWalked(c, walk) ==
  /\ walkRoot' = c.inputDir
  /\ walkExclude' = c.outputDir
  /\ walkResult' = walk
  /\ IF ~walk.ok
     THEN \* the rejection of readdir leaves the operation
          /\ errorsShown' = 0
          /\ pc' = "threw"
          /\ filteredFiles' = <<>>
     ELSE beginFiltered(c, walk, filterFiles(c.op, c.extensionFilter, walk.files))

\* the operation up to the start of its per-file loop: validation of the
\* input root, the walk, the filter
beginWith(c) ==
  /\ cfg' = c
  /\ run' = run + 1
  /\ fsAtStart' = fs
  /\ prevRun' = [tasks |-> filteredFiles, ran |-> run > 0]
  /\ idx' = 1
  /\ processedCount' = 0
  /\ skippedCount' = 0
  /\ failures' = <<>>
  /\ signatureFailures' = <<>>
  /\ log' = <<>>
  /\ UNCHANGED <<fs, faults>>
  /\ UNCHANGED <<fnVars, streamVars>>
  /\ IF ~isDirectory(fs, c.inputDir)
     THEN \* displayError('Folder not found or not a directory.'); return
          /\ errorsShown' = 1
          /\ pc' = "done"
          /\ filteredFiles' = <<>>
          /\ UNCHANGED <<walkRoot, walkExclude, walkResult>>
     ELSE beginWalked(c, walkOf(fs, c))

begin(a) == beginWith(configOf(a))

\* the user picks "Encrypt folder" or "Decrypt folder" and answers the prompts
Start ==
  /\ pc = "idle"
  /\ \E a \in Answers : begin(a)

\* the count incremented as soon as the engine has returned
countsAsProcessed_beforeWrite(engine, wrote, error) == engine /\ error # "engine"

\* `encryptedCount += 1` / `decryptedCount += 1`: the statement after the
\* awaited engine call and the awaited write, reached when neither threw
countsAsProcessed(engine, wrote, error) == engine /\ wrote /\ error = ""

\* the entry put in front of the list
pushFailure_front(list, entry) == <<entry>> \o list

\* failures.push({file, error})
pushFailure(list, entry) == Append(list, entry)

\* the effect of one iteration with result r, caught by the per-file catch
iterate(r, caught) ==
  /\ fs' = r.fs
  /\ faults' = IF r.env \notin {"ok", "none"} THEN faults + 1 ELSE faults
  /\ log' = Append(log, [file |-> r.file, outputPath |-> r.outputPath,
                         env |-> r.env, existed |-> r.existed,
                         engine |-> r.engine, wrote |-> r.wrote,
                         aborted |-> r.aborted, error |-> r.error,
                         stored |-> r.stored, result |-> r.result,
                         unlocks |-> IF r.engine THEN keyUnlocks(cfg) ELSE 0])
  /\ signatureFailures' =
       IF r.result = "processed"
          /\ signatureFailed(cfg.verifySignatures, r.verifiedIsFalse)
       THEN Append(signatureFailures, r.file)
       ELSE signatureFailures
  /\ processedCount' = IF countsAsProcessed(r.engine, r.wrote, r.error)
                       THEN processedCount + 1
                       ELSE processedCount
  /\ skippedCount' = IF r.result = "skipped" THEN skippedCount + 1
                     ELSE skippedCount
  /\ IF r.result # "failed"
     THEN /\ failures' = failures
          /\ idx' = idx + 1
          /\ UNCHANGED <<pc, errorsShown>>
     ELSE /\ failures' = IF caught.push
                         THEN pushFailure(failures, [file |-> r.file, error |-> r.error])
                         ELSE failures
          /\ IF caught.control = "continue"
             THEN /\ idx' = idx + 1
                  /\ UNCHANGED <<pc, errorsShown>>
             ELSE \* the outer catch: displayError, return
                  /\ idx' = idx
                  /\ errorsShown' = errorsShown + 1
                  /\ pc' = "done"

iterateCaught(r) == iterate(r, perFileCatch(r.error))

iterateFrom(prep) ==
  \E env \in (IF ~reachesEngine(prep) THEN {"none"}
               ELSE IF faults < MaxFaults THEN envsOf(cfg) ELSE {"ok"}) :
    iterateCaught(loopBody(prep, env))

\* one iteration of `for (const filePath of filteredFiles)`
ProcessFile ==
  /\ pc = "loop"
  /\ idx <= Len(filteredFiles)
  /\ iterateFrom(prepare(fs, cfg, filteredFiles[idx]))
  /\ UNCHANGED <<cfg, filteredFiles, run, fsAtStart, prevRun, walkRoot,
                 walkExclude, walkResult>>
  /\ UNCHANGED <<fnVars, streamVars>>

\* the loop is over: the spinner stops and the summary is printed
Finish ==
  /\ pc = "loop"
  /\ idx > Len(filteredFiles)
  /\ pc' = "done"
  /\ UNCHANGED <<fs, cfg, filteredFiles, idx, processedCount, skippedCount,
                 failures, signatureFailures, errorsShown, log, run, fsAtStart,
                 prevRun, faults, walkRoot, walkExclude, walkResult>>
  /\ UNCHANGED <<fnVars, streamVars>>

\* back in the menu, the user runs the same folder operation again with the
\* same answers
Rerun ==
  /\ pc = "done"
  /\ run < MaxRuns
  /\ begin(cfg.answers)

Next == Start \/ ProcessFile \/ Finish \/ Rerun

Spec == Init /\ [][Next]_vars

\* ------------------------------------------------------------------------
\* The walker on its own, and the task list made of its result
\* ------------------------------------------------------------------------

\* an input root /t that holds a directory named t: /t/c.pgp and
\* /t/t/c.pgp.pgp
P_tt == P_t \o <<sep, "t">>

F_tt_c == P_tt \o <<sep, "c", ".", "p", "g", "p", ".", "p", "g", "p">>

NestTree ==
  (P_fsroot :> Dir(TRUE)) @@ (P_t :> Dir(TRUE)) @@ (P_f :> File("plain", <<>>))
  @@ (P_c :> File("plain", <<>>)) @@ (P_tt :> Dir(TRUE))
  @@ (F_tt_c :> File("plain", <<>>))

\* placements of the output root: the default beside the input root, nested
\* in it, equal to it, and above it
PlacementInputs == {<<>>, In_o, P_t, P_fsroot}

\* the task list with the output path of every task
tasksOf(c, filtered) ==
  [i \in 1..Len(filtered) |->
     [inputPath |-> filtered[i], outputPath |-> outputPathOf(c, filtered[i])]]

taskList(c, walk) ==
  IF ~walk.ok THEN <<>>
  ELSE tasksOf(c, filterFiles(c.op, c.extensionFilter, walk.files))

\* encryptFolder / decryptFolder up to the per-file loop: the walk of the
\* input root with the output root excluded, the filter, and the output path
\* the loop derives for every task
taskListCall(c, walk) ==
  /\ walkRoot' = c.inputDir
  /\ walkExclude' = c.outputDir
  /\ walkResult' = walk
  /\ fnCall' = [fn |-> "taskList", op |-> c.op, outputDir |-> c.outputDir,
                result |-> taskList(c, walk)]
  /\ UNCHANGED <<fs, fnPath, fnFilter>>
  /\ UNCHANGED <<batchVars, streamVars>>

taskListOf(c) == taskListCall(c, walkOf(fs, c))

CallTaskList(a) == taskListOf(configOf(a))

\* an input root holding the output folder /t/o of an earlier run and beside
\* it the folder /t/o2
SiblingTree ==
  (P_fsroot :> Dir(TRUE)) @@ (P_t :> Dir(TRUE)) @@ (P_f :> File("plain", <<>>))
  @@ (P_o :> Dir(TRUE)) @@ (P_o_a :> File("old", <<>>))
  @@ (P_o2 :> Dir(TRUE)) @@ (P_d :> File("plain", <<>>))

InitWalk ==
  /\ fs \in Trees \cup {SiblingTree, NestTree}
  /\ fsAtStart = fs
  /\ InitBatchVars
  /\ InitWalkVars
  /\ InitFnVars
  /\ InitStreamVars

NextWalk ==
  \/ \E rootDir \in WalkRoots, excludeDir \in WalkExcludes :
       WalkCall(rootDir, excludeDir)
  \/ \E o \in {"encrypt", "decrypt"} :
       \E a \in AnswersOf(o, {In_t}, PlacementInputs, ExtensionInputs,
                          {"overwrite"}, {FALSE}, {FALSE}) :
         CallTaskList(a)

SpecWalk == InitWalk /\ [][NextWalk]_vars

\* ------------------------------------------------------------------------
\* The naming and format helpers on their own
\* ------------------------------------------------------------------------

\* files a walk of /t may yield
F_c_gpg == P_t \o <<sep, "c", ".", "G", "p", "g">>

F_d_ASC == P_s \o <<sep, "d", ".", "A", "S", "C">>

F_c_asc_pgp == P_t \o <<sep, "c", ".", "a", "s", "c", ".", "p", "g", "p">>

F_sasc_b == P_t \o <<sep, "s", ".", "a", "s", "c", sep, "b">>

F_dotasc == P_t \o <<sep, ".", "a", "s", "c">>

F_cpgp == P_t \o <<sep, "c", "p", "g", "p">>

F_a_dot == P_t \o <<sep, "a", ".">>

PathInputs ==
  {P_a, P_c, P_b, F_c_asc, F_c_gpg, F_d_ASC, F_c_asc_pgp, F_sasc_b, F_dotasc,
   F_cpgp, F_a_dot}

\* answers to the extension filter prompt
In_pdf == <<" ", ".", "P", "D", "F", ",", " ", "t", "x", "t", " ">>

In_commas == <<",", ",">>

In_blank == <<" ", ",", " ">>

In_asc == <<"a", "s", "c">>

In_dot == <<".", ",", ",", "G", "p", "g">>

FilterInputs == {<<>>, In_filter, In_pdf, In_commas, In_blank, In_asc, In_dot}

\* output folders of the calls
OutputDirs == {P_o, P_x, P_fsroot}

InitFn ==
  /\ fs = BaseTree
  /\ fsAtStart = fs
  /\ InitBatchVars
  /\ InitWalkVars
  /\ InitStreamVars
  /\ fnPath \in PathInputs
  /\ fnFilter \in FilterInputs
  /\ fnCall = NoCall

FnFrame ==
  /\ UNCHANGED <<fs, fnPath, fnFilter>>
  /\ UNCHANGED <<batchVars, walkVars, streamVars>>

\* decryptFolder: a task of the filtered list gets its output path
CallDecryptOutputPath(formatHandling, outputDir) ==
  /\ matchesFilter(parseExtensionFilter(fnFilter, defaultFilter(formatHandling)),
                   fnPath)
  /\ fnCall' = [fn |-> "decryptOutputPath", outputDir |-> outputDir,
                result |-> outputPathOf([op |-> "decrypt", inputDir |-> P_t,
                                         outputDir |-> outputDir], fnPath)]
  /\ FnFrame

roundTrip(outputFormat, encDir, decDir, encrypted) ==
  [fn |-> "roundTrip", format |-> outputFormat, outputDir |-> decDir,
   encrypted |-> encrypted,
   result |-> outputPathOf([op |-> "decrypt", inputDir |-> encDir,
                            outputDir |-> decDir], encrypted)]

\* encryptFolder of /t into encDir names the output of a task, and
\* decryptFolder of encDir into decDir names the output of that output
CallRoundTrip(outputFormat, encDir, decDir) ==
  /\ filterFiles("encrypt", parseExtensionFilter(fnFilter, <<>>), <<fnPath>>) # <<>>
  /\ fnCall' = roundTrip(outputFormat, encDir, decDir,
                         outputPathOf([op |-> "encrypt", inputDir |-> P_t,
                                       outputDir |-> encDir,
                                       format |-> outputFormat], fnPath))
  /\ FnFrame

\* decryptFile (single file): the default output path of inputPath
CallSuggestDecryptedOutputPath(inputPath) ==
  /\ fnCall' = [fn |-> "suggestDecryptedOutputPath", arg |-> inputPath,
                result |-> suggestDecryptedOutputPath(inputPath)]
  /\ FnFrame

\* decryptFolder: the format a task is parsed as
CallResolveInputFormat(mode) ==
  /\ fnCall' = [fn |-> "resolveInputFormat", mode |-> mode,
                result |-> resolveInputFormat(fnPath, mode)]
  /\ FnFrame

\* encryptFolder / decryptFolder: the typed filter is parsed
CallParseExtensionFilter(defaults) ==
  /\ fnCall' = [fn |-> "parseExtensionFilter", defaults |-> defaults,
                result |-> parseExtensionFilter(fnFilter, defaults)]
  /\ FnFrame

NextFn ==
  \/ \E formatHandling \in FormatsOf("decrypt"), outputDir \in OutputDirs :
       CallDecryptOutputPath(formatHandling, outputDir)
  \/ \E outputFormat \in FormatsOf("encrypt"), encDir \in {P_o, P_x},
        decDir \in OutputDirs :
       CallRoundTrip(outputFormat, encDir, decDir)
  \/ \E inputPath \in {fnPath, SubSeq(fnPath, Len(P_t) + 2, Len(fnPath))} :
       CallSuggestDecryptedOutputPath(inputPath)
  \/ \E mode \in FormatsOf("decrypt") : CallResolveInputFormat(mode)
  \/ \E defaults \in {<<>>} \cup {defaultFilter(m) : m \in FormatsOf("decrypt")} :
       CallParseExtensionFilter(defaults)

SpecFn == InitFn /\ [][NextFn]_vars

\* ------------------------------------------------------------------------
\* writeOutputToFile on its own
\* ------------------------------------------------------------------------

\* most chunks a streamed artifact produces
MaxChunks == 2

\* what reader.read() resolves to before the stream ends: a chunk holding
\* bytes ("data"), a chunk of length zero ("empty": a Uint8Array, which is
\* truthy whatever its length), or a result whose value is falsy ("none")
Chunks == {"data", "empty", "none"}

\* a test that lets every result through to the writer
skipsChunk_never(kind) == FALSE

\* `if (!value) continue`
skipsChunk(kind) == kind = "none"

Sources == UNION {[1..n -> Chunks] : n \in 0..MaxChunks}

Callers == {"encryptFile", "decryptFile", "encryptFolder", "decryptFolder"}

isFolderCaller(caller) == caller \in {"encryptFolder", "decryptFolder"}

\* what the engine hands over: openpgp.encrypt gives a string, bytes or a
\* stream of either; openpgp.decrypt gives bytes or a stream of bytes and is
\* written with format 'binary'
ArtifactsOf(caller) ==
  IF caller \in {"encryptFile", "encryptFolder"}
  THEN {[shape |-> "string", format |-> "armored"],
        [shape |-> "bytes", format |-> "binary"],
        [shape |-> "textStream", format |-> "armored"],
        [shape |-> "byteStream", format |-> "binary"]}
  ELSE {[shape |-> "bytes", format |-> "binary"],
        [shape |-> "byteStream", format |-> "binary"]}

\* destinations: below /x, which does not exist, and below the file /f
W_x == P_x \o <<sep, "a">>

W_f == P_f \o <<sep, "a">>

OutputPaths == {P_o_a, W_x, W_f}

StreamTrees == {BaseTree, TreeOf(FALSE, FALSE, TRUE, TRUE, FALSE)}

Ev(e, c, h) == [ev |-> e, chunk |-> c, how |-> h]

\* the folder operations make the directory of the output before the
\* collision check; the single-file operations call writeOutputToFile at once
fsBeforeWrite(f, caller, dir) ==
  IF isFolderCaller(caller) THEN mkdirRecursive(f, dir) ELSE f

\* the destination can be opened for writing: its directory exists and it
\* is not itself a directory
destOk(f, outputPath) ==
  isDirectory(f, dirname(outputPath)) /\ writeTargetOk(f, outputPath)

\* writeFile(outputPath, data) of the string and Uint8Array branches
writeBufferedIn(f1, outputPath) ==
  IF writeTargetOk(f1, outputPath)
  THEN [fs |-> writeFile(f1, outputPath, File("out", <<>>)), wpc |-> "returned",
        thrown |-> "", wlog |-> <<Ev("writeFile", 0, "")>>]
  ELSE [fs |-> f1, wpc |-> "threw", thrown |-> "write",
        wlog |-> <<Ev("writeFile", 0, "")>>]

\* the string and Uint8Array branches: mkdir, then writeFile
writeBuffered(f, outputPath, dir) ==
  IF ~mkdirOk(f, dir)
  THEN [fs |-> f, wpc |-> "threw", thrown |-> "mkdir", wlog |-> <<>>]
  ELSE writeBufferedIn(mkdirRecursive(f, dir), outputPath)

finishBuffered(r) ==
  /\ fs' = r.fs
  /\ wpc' = r.wpc
  /\ thrown' = r.thrown
  /\ wlog' = r.wlog
  /\ UNCHANGED <<chunk, pending, reader, writer>>

\* the stream branch: byteStream.getReader(), Bun.file(outputPath).writer()
acquire(f1) ==
  /\ fs' = f1
  /\ reader' = "locked"
  /\ writer' = "open"
  /\ wpc' = "loop"
  /\ wlog' = <<Ev("acquire", 0, "")>>
  /\ UNCHANGED <<chunk, pending, thrown>>

enter(shape, outputPath, f1) ==
  IF shape \in {"string", "bytes"}
  THEN finishBuffered(writeBuffered(f1, outputPath, dirname(outputPath)))
  ELSE acquire(f1)

StreamEnv == UNCHANGED <<batchVars, walkVars, fnVars, source, srcEnd>>

\* a caller hands an artifact to writeOutputToFile
WriteCall(caller, artifact, outputPath) ==
  /\ wpc = "idle"
  /\ isFolderCaller(caller) => mkdirOk(fs, dirname(outputPath))
  /\ wcall' = [fn |-> "writeOutputToFile", caller |-> caller,
               shape |-> artifact.shape, format |-> artifact.format,
               outputPath |-> outputPath]
  /\ enter(artifact.shape, outputPath,
           fsBeforeWrite(fs, caller, dirname(outputPath)))
  /\ StreamEnv

\* number of results the reader has delivered
pulled == Len(SelectSeq(wlog, LAMBDA e : e.ev = "pull"))

\* leaving the try block without its finally
afterTry_noFinally(cause) == IF cause = "done" THEN "release" ELSE "threw"

\* where control goes when the try block is left (break or exception):
\* the finally block
afterTry(cause) == "release"

\* the next read issued without waiting for the write's promise
afterWrite_noAwait(isPromise) == "loop"

\* `if (writeResult instanceof Promise) await writeResult`
afterWrite(isPromise) == IF isPromise THEN "awaitWrite" ELSE "loop"

\* `await reader.read()` is issued
Read ==
  /\ wpc = "loop"
  /\ wpc' = "awaitRead"
  /\ wlog' = Append(wlog, Ev("read", 0, ""))
  /\ UNCHANGED <<fs, wcall, chunk, pending, reader, writer, thrown>>
  /\ StreamEnv

\* the read settles: a chunk, a result without value, done, or a rejection
ReadSettles ==
  /\ wpc = "awaitRead"
  /\ IF pulled < Len(source)
     THEN /\ wlog' = Append(wlog, Ev("pull", pulled + 1, source[pulled + 1]))
          /\ IF skipsChunk(source[pulled + 1])
             THEN /\ wpc' = "loop"
                  /\ chunk' = 0
             ELSE /\ wpc' = "write"
                  /\ chunk' = pulled + 1
          /\ UNCHANGED thrown
     ELSE IF srcEnd = "done"
     THEN \* `if (done) break`
          /\ wlog' = Append(wlog, Ev("done", 0, ""))
          /\ wpc' = afterTry("done")
          /\ UNCHANGED <<chunk, thrown>>
     ELSE /\ wlog' = Append(wlog, Ev("readError", 0, ""))
          /\ wpc' = afterTry("read")
          /\ thrown' = "read"
          /\ UNCHANGED chunk
  /\ UNCHANGED <<fs, wcall, pending, reader, writer>>
  /\ StreamEnv

\* the destination after the writer took a chunk: the chunk reaches the file
\* when the file can be opened, else it stays in the writer's buffer
stored(f, outputPath) ==
  IF destOk(f, outputPath) THEN writeFile(f, outputPath, File("partial", <<>>))
  ELSE f

\* writer.write(value): returns a number, returns a promise, or throws
Write(outcome) ==
  /\ wpc = "write"
  /\ CASE outcome = "number" ->
            /\ wlog' = wlog \o <<Ev("write", chunk, ""), Ev("ack", chunk, "number")>>
            /\ fs' = stored(fs, wcall.outputPath)
            /\ wpc' = afterWrite(FALSE)
            /\ chunk' = 0
            /\ UNCHANGED <<pending, thrown>>
       [] outcome = "promise" ->
            /\ wlog' = Append(wlog, Ev("write", chunk, ""))
            /\ pending' = pending + 1
            /\ wpc' = afterWrite(TRUE)
            /\ UNCHANGED <<fs, chunk, thrown>>
       [] outcome = "throw" ->
            /\ wlog' = Append(wlog, Ev("write", chunk, ""))
            /\ thrown' = "write"
            /\ wpc' = afterTry("write")
            /\ UNCHANGED <<fs, chunk, pending>>
  /\ UNCHANGED <<wcall, reader, writer>>
  /\ StreamEnv

\* the promise of a write settles
WriteSettles(ok) ==
  /\ pending > 0
  /\ pending' = pending - 1
  /\ IF ok
     THEN /\ wlog' = Append(wlog, Ev("ack", IF wpc = "awaitWrite" THEN chunk ELSE 0,
                                     "promise"))
          /\ fs' = stored(fs, wcall.outputPath)
          /\ wpc' = IF wpc = "awaitWrite" THEN "loop" ELSE wpc
          /\ UNCHANGED thrown
     ELSE /\ wlog' = Append(wlog, Ev("writeError", 0, "promise"))
          /\ wpc' = IF wpc = "awaitWrite" THEN afterTry("write") ELSE wpc
          /\ thrown' = IF wpc = "awaitWrite" THEN "write" ELSE thrown
          /\ UNCHANGED fs
  /\ chunk' = IF wpc = "awaitWrite" /\ ok THEN 0 ELSE chunk
  /\ UNCHANGED <<wcall, reader, writer>>
  /\ StreamEnv

\* finally: reader.releaseLock()
Release ==
  /\ wpc = "release"
  /\ reader' = "released"
  /\ wlog' = Append(wlog, Ev("release", 0, ""))
  /\ wpc' = "end"
  /\ UNCHANGED <<fs, wcall, chunk, pending, writer, thrown>>
  /\ StreamEnv

\* the call is over: it returns, or raises the error of the try block
leave(err) == IF err # "" THEN "threw" ELSE "returned"

\* the destination after the writer was ended without error
closed(f, outputPath, err) ==
  IF destOk(f, outputPath) /\ err = ""
  THEN writeFile(f, outputPath, File("out", <<>>))
  ELSE f

\* chunks the writer took can be flushed only to a destination that can be
\* opened
flushOk(f, outputPath, events) ==
  destOk(f, outputPath) \/ \A i \in 1..Len(events) : events[i].ev # "ack"

\* a failure of writer.end() that the finally block swallows
endRaised_swallowed(err) == [wpc |-> leave(err), thrown |-> err]

\* writer.end() throws, or its promise rejects, inside the finally block: the
\* call raises that error, whatever the try block raised
endRaised(err) == [wpc |-> "threw", thrown |-> "end"]

\* finally: writer.end(): returns a number, returns a promise, or throws
End(outcome) ==
  /\ wpc = "end"
  /\ outcome = "number" => flushOk(fs, wcall.outputPath, wlog)
  /\ writer' = "ended"
  /\ wlog' = Append(wlog, Ev("end", 0, outcome))
  /\ CASE outcome = "number" ->
            /\ wpc' = leave(thrown)
            /\ fs' = closed(fs, wcall.outputPath, thrown)
            /\ UNCHANGED thrown
       [] outcome = "promise" ->
            /\ wpc' = "awaitEnd"
            /\ UNCHANGED <<fs, thrown>>
       [] outcome = "throw" ->
            /\ wpc' = endRaised(thrown).wpc
            /\ thrown' = endRaised(thrown).thrown
            /\ UNCHANGED fs
  /\ UNCHANGED <<wcall, chunk, pending, reader>>
  /\ StreamEnv

\* `await endResult` settles
EndSettles(ok) ==
  /\ wpc = "awaitEnd"
  /\ ok => flushOk(fs, wcall.outputPath, wlog)
  /\ IF ok
     THEN /\ wpc' = leave(thrown)
          /\ fs' = closed(fs, wcall.outputPath, thrown)
          /\ UNCHANGED <<thrown, wlog>>
     ELSE /\ wpc' = endRaised(thrown).wpc
          /\ thrown' = endRaised(thrown).thrown
          /\ wlog' = Append(wlog, Ev("endError", 0, "promise"))
          /\ UNCHANGED fs
  /\ UNCHANGED <<wcall, chunk, pending, reader, writer>>
  /\ StreamEnv

\* the input file of the task whose output is written
TaskFile == P_a

\* the caller after `await this.writeOutputToFile(...)`: a folder operation
\* counts the file, or its per-file catch pushes the error onto failures; a
\* single-file operation shows success, or its catch shows the error
CallerResumes ==
  /\ wpc \in {"returned", "threw"}
  /\ wpc' = "resumed"
  /\ IF isFolderCaller(wcall.caller)
     THEN /\ processedCount' = IF wpc = "returned" THEN processedCount + 1
                               ELSE processedCount
          /\ failures' = IF wpc = "threw" /\ perFileCatch(thrown).push
                         THEN Append(failures, [file |-> TaskFile, error |-> thrown])
                         ELSE failures
          /\ UNCHANGED errorsShown
     ELSE /\ errorsShown' = IF wpc = "threw" THEN errorsShown + 1 ELSE errorsShown
          /\ UNCHANGED <<processedCount, failures>>
  /\ UNCHANGED <<fs, pc, cfg, filteredFiles, idx, skippedCount,
                 signatureFailures, log, run, fsAtStart, prevRun, faults>>
  /\ UNCHANGED <<walkVars, fnVars, streamVars_but_wpc>>

InitStream ==
  /\ fs \in StreamTrees
  /\ fsAtStart = fs
  /\ InitBatchVars
  /\ InitWalkVars
  /\ InitFnVars
  /\ wcall = NoCall
  /\ wpc = "idle"
  /\ source \in Sources
  /\ srcEnd \in {"done", "error"}
  /\ chunk = 0
  /\ pending = 0
  /\ reader = "none"
  /\ writer = "none"
  /\ thrown = ""
  /\ wlog = <<>>

NextStream ==
  \/ \E caller \in Callers, outputPath \in OutputPaths :
       \E artifact \in ArtifactsOf(caller) : WriteCall(caller, artifact, outputPath)
  \/ Read
  \/ ReadSettles
  \/ \E outcome \in {"number", "promise", "throw"} : Write(outcome)
  \/ \E ok \in BOOLEAN : WriteSettles(ok)
  \/ Release
  \/ \E outcome \in {"number", "promise", "throw"} : End(outcome)
  \/ \E ok \in BOOLEAN : EndSettles(ok)
  \/ CallerResumes

SpecStream == InitStream /\ [][NextStream]_vars

\* ------------------------------------------------------------------------
\* Properties of the walker (SpecWalk)
\* ------------------------------------------------------------------------

IsSegPrefix(a, b) == Len(a) <= Len(b) /\ SubSeq(b, 1, Len(a)) = a

\* p is the path o or lies beneath it, by whole path segments
AtOrBelow(p, o) == IsSegPrefix(Segs(o), Segs(p))

\* p lies beneath o
StrictlyBelow(p, o) == AtOrBelow(p, o) /\ Segs(p) # Segs(o)

WalkDone == walkRoot # NoPath

\* the paths from just below root down to p
PathsDownTo(root, p) ==
  {JoinSegs(SubSeq(Segs(p), 1, n)) : n \in (Len(Segs(root)) + 1)..Len(Segs(p))}

\* p is reached by a walk from root that prunes what the exclusion test
\* prunes and descends through directories only
ReachedFrom(f, root, exclude, p) ==
  /\ Exists(f, p)
  /\ StrictlyBelow(p, root)
  /\ \A q \in PathsDownTo(root, p) :
       /\ ~isExcludedEntry(IF exclude # NoPath THEN resolve(exclude) ELSE NoPath, q)
       /\ q # p => KindOf(f, q) = "dir"

\* C6: for an exclude path O nested inside the walk root, the walk returns
\* neither O nor any path beneath O, and never reads O or a directory beneath
\* it.
C6_ExcludedSubtreePruned ==
  (WalkDone /\ walkExclude # NoPath /\ StrictlyBelow(walkExclude, walkRoot))
    => /\ \A p \in Range(walkResult.files) : ~AtOrBelow(p, walkExclude)
       /\ \A d \in Range(walkResult.reads) : ~AtOrBelow(d, walkExclude)

C6_Witness ==
  /\ walkRoot = P_t
  /\ walkExclude = P_o \o <<sep>>
  /\ Exists(fs, P_o_a)
  /\ walkResult.ok
  /\ walkResult.files # <<>>

\* C8: a successful walk returns exactly the regular files reached from the
\* root through directories that are not pruned, each once; it reads exactly
\* the root and the reached directories; links and sockets are neither
\* returned nor read.
C8_ExactlyRegularFiles ==
  (WalkDone /\ walkResult.ok)
    => /\ Range(walkResult.files) =
            {p \in DOMAIN fs : KindOf(fs, p) = "file"
                               /\ ReachedFrom(fs, walkRoot, walkExclude, p)}
       /\ Cardinality(Range(walkResult.files)) = Len(walkResult.files)
       /\ Range(walkResult.reads) =
            {walkRoot} \cup {d \in DOMAIN fs : KindOf(fs, d) = "dir"
                                      /\ ReachedFrom(fs, walkRoot, walkExclude, d)}
       /\ Cardinality(Range(walkResult.reads)) = Len(walkResult.reads)

C8_Witness ==
  /\ walkRoot = P_t
  /\ walkResult.ok
  /\ KindOf(fs, P_l) = "link"
  /\ KindOf(fs, P_k) = "socket"
  /\ P_b \in Range(walkResult.files)
  /\ P_a \in Range(walkResult.files)
  /\ P_s \in Range(walkResult.reads)

\* C9: when the root is missing or not a directory, or the root or a reached
\* directory cannot be read, the walk fails and hands no file to its caller.
C9_WalkAllOrNothing ==
  (WalkDone /\ \/ KindOf(fs, walkRoot) # "dir"
               \/ ~fs[walkRoot].readable
               \/ \E d \in DOMAIN fs :
                    /\ KindOf(fs, d) = "dir"
                    /\ ~fs[d].readable
                    /\ ReachedFrom(fs, walkRoot, walkExclude, d))
    => ~walkResult.ok /\ walkResult.files = <<>>

C9_Witness ==
  /\ walkRoot = P_t
  /\ walkExclude = P_o
  /\ Exists(fs, P_a)
  /\ KindOf(fs, P_s) = "dir"
  /\ ~fs[P_s].readable
  /\ ~walkResult.ok
  /\ P_s \in Range(walkResult.reads)

\* C30: the exclusion goes by whole path segments: a file or directory below
\* the walk root is returned or read unless it, or a directory on the way to
\* it, is the exclude path or lies beneath it; a sibling whose name only
\* begins with the excluded directory's name is walked.
C30_WholeSegmentExclusion ==
  (WalkDone /\ walkResult.ok /\ walkExclude # NoPath) =>
    \A p \in DOMAIN fs :
      (/\ StrictlyBelow(p, walkRoot)
       /\ \A q \in PathsDownTo(walkRoot, p) :
            /\ ~AtOrBelow(q, walkExclude)
            /\ q # p => KindOf(fs, q) = "dir")
        => /\ KindOf(fs, p) = "file" => p \in Range(walkResult.files)
           /\ KindOf(fs, p) = "dir" => p \in Range(walkResult.reads)

\* /t/o was excluded and holds a file; /t/o2 beside it was read and its file
\* returned
C30_Witness ==
  /\ walkRoot = P_t
  /\ walkExclude = P_o
  /\ KindOf(fs, P_o_a) = "file"
  /\ walkResult.ok
  /\ P_o2 \in Range(walkResult.reads)
  /\ P_d \in Range(walkResult.files)
  /\ P_o_a \notin Range(walkResult.files)

\* C29: a walk whose exclude path is the walk root or a directory above it
\* returns no file.
C29_ExcludedRootYieldsNothing ==
  (/\ WalkDone
   /\ walkExclude # NoPath
   /\ AtOrBelow(walkRoot, walkExclude)
   /\ walkResult.ok)
    => walkResult.files = <<>>

\* the same for every exclude path but the root of the file system; such a
\* walk reads the walk root only
C29_ExceptFileSystemRoot ==
  (/\ WalkDone
   /\ walkExclude # NoPath
   /\ resolve(walkExclude) # <<sep>>
   /\ AtOrBelow(walkRoot, walkExclude)
   /\ walkResult.ok)
    => /\ walkResult.files = <<>>
       /\ walkResult.reads = <<walkRoot>>

\* the walk of /t with / excluded returned the files of /t
C29_RootExcludeYieldsFiles ==
  /\ walkRoot = P_t
  /\ walkExclude = <<sep>>
  /\ walkResult.ok
  /\ P_a \in Range(walkResult.files)

\* the walk of /t/s with /t excluded returned nothing although /t/s holds a
\* file
C29_AncestorExcludeReached ==
  /\ walkRoot = P_s
  /\ walkExclude = P_t
  /\ Exists(fs, P_b)
  /\ walkResult.ok
  /\ walkResult.files = <<>>

\* ------------------------------------------------------------------------
\* Properties of the folder batch (Spec)
\* ------------------------------------------------------------------------

Last(q) == q[Len(q)]

\* the engine or the write of the i-th visited task failed
EngineOrWriteFailed(i) == log[i].engine /\ log[i].result = "failed"

\* the i-th visited task hit an existing output under policy abort
AbortCollision(i) == log[i].aborted

NoAbortCollision == \A i \in 1..Len(log) : ~AbortCollision(i)

\* C1: the tasks are visited in list order; when the engine or the write of a
\* task fails, failures holds an entry with that task's input path and the
\* error message, and the loop goes on to the next task of the list.
C1_FailureRecordedLoopContinues ==
  \A i \in 1..Len(log) :
    /\ log[i].file = filteredFiles[i]
    /\ EngineOrWriteFailed(i) =>
         /\ \E j \in 1..Len(failures) :
              failures[j] = [file |-> log[i].file, error |-> log[i].error]
         /\ i < Len(filteredFiles) =>
              \/ Len(log) > i
              \/ pc = "loop" /\ idx = i + 1

C1_Witness ==
  /\ pc = "done"
  /\ Len(log) = 2
  /\ log[1].env = "engineErr"
  /\ log[1].result = "failed"
  /\ log[2].result = "processed"
  /\ Len(failures) = 1

\* C2: at the end of a run without an abort collision,
\* processedCount + skippedCount + |failures| is the length of the task list.
C2_TallyEqualsTasks ==
  (pc = "done" /\ NoAbortCollision)
    => processedCount + skippedCount + Len(failures) = Len(filteredFiles)

C2_Witness ==
  /\ pc = "done"
  /\ NoAbortCollision
  /\ Len(filteredFiles) = 2
  /\ skippedCount = 1
  /\ Len(failures) = 1
  /\ log[2].env = "writeErrPartial"

\* C3: after a task hit an existing output under policy abort, no further
\* task is visited.
C3_AbortEndsBatch ==
  \A i \in 1..Len(log) : AbortCollision(i) => Len(log) = i

\* C4: a run that hit an abort collision returns with failures holding no
\* entry for the colliding task or a later one, and with
\* processedCount + skippedCount + |failures| the number of tasks before it.
C4_AbortResultIsPrefix ==
  \A i \in 1..Len(log) :
    (pc = "done" /\ AbortCollision(i) /\ \A k \in 1..(i - 1) : ~AbortCollision(k))
      => /\ \A j \in 1..Len(failures) :
              \A k \in i..Len(filteredFiles) : failures[j].file # filteredFiles[k]
         /\ processedCount + skippedCount + Len(failures) = i - 1

\* C5: under policy skip a task whose output file exists leaves the file
\* system as it is, invokes neither the engine nor the write, adds one to
\* skippedCount, leaves processedCount and failures alone and moves on.
C5_SkipIsFrame ==
  [][(/\ pc = "loop"
      /\ idx <= Len(filteredFiles)
      /\ cfg.outputPolicy = "skip"
      /\ fileExists(fs, outputPathOf(cfg, filteredFiles[idx])))
     => (/\ fs' = fs
         /\ skippedCount' = skippedCount + 1
         /\ processedCount' = processedCount
         /\ failures' = failures
         /\ idx' = idx + 1
         /\ pc' = "loop"
         /\ Len(log') = Len(log) + 1
         /\ ~Last(log').engine
         /\ ~Last(log').wrote)]_vars

C5_Witness ==
  /\ cfg.op = "encrypt"
  /\ cfg.outputPolicy = "skip"
  /\ run = 1
  /\ Len(log) = 1
  /\ log[1].result = "skipped"
  /\ log[1].existed
  /\ log[1].outputPath = P_o_a
  /\ fs[P_o_a].tag = "old"
  /\ skippedCount = 1

\* the regular files below o
FilesUnder(f, o) == {p \in DOMAIN f : KindOf(f, p) = "file" /\ StrictlyBelow(p, o)}

\* a run after the first, finished, with policy overwrite and the output root
\* nested inside the input root
NestedRerunDone ==
  /\ pc = "done"
  /\ run >= 2
  /\ prevRun.ran
  /\ cfg.outputPolicy = "overwrite"
  /\ StrictlyBelow(cfg.outputDir, cfg.inputDir)

\* the output paths at which this run stored a file, complete or partial
StoredByRun == {log[i].outputPath : i \in {k \in 1..Len(log) : log[k].stored # "none"}}

\* C7 as stated: a re-run has the task list of the run before it and leaves
\* the set of files under the output root as that run left it.
C7_RerunSameFileSet ==
  NestedRerunDone
    => /\ filteredFiles = prevRun.tasks
       /\ FilesUnder(fs, cfg.outputDir) = FilesUnder(fsAtStart, cfg.outputDir)

\* C7 amended: a re-run has the task list of the run before it; the files
\* under the output root are those that run left plus the outputs this run
\* stored, each the output path of a task of the list; so the set is the same
\* unless this run stores an output the run before failed to store.
C7_RerunAddsOnlyTaskOutputs ==
  NestedRerunDone
    => /\ filteredFiles = prevRun.tasks
       /\ FilesUnder(fs, cfg.outputDir)
            = FilesUnder(fsAtStart, cfg.outputDir) \cup StoredByRun
       /\ StoredByRun \subseteq
            {outputPathOf(cfg, filteredFiles[i]) : i \in 1..Len(filteredFiles)}
       /\ StoredByRun \subseteq FilesUnder(fsAtStart, cfg.outputDir)
            => FilesUnder(fs, cfg.outputDir) = FilesUnder(fsAtStart, cfg.outputDir)

C7_Witness ==
  /\ NestedRerunDone
  /\ Len(filteredFiles) = 2
  /\ processedCount = 2
  /\ \A i \in 1..2 : log[i].existed /\ fsAtStart[log[i].outputPath].tag = "out"
  /\ FilesUnder(fs, cfg.outputDir) = FilesUnder(fsAtStart, cfg.outputDir)

\* C10: when the input root is not a directory or no file is left after the
\* filter, the operation returns at once: one error shown, no task visited,
\* the engine never invoked, the file system unchanged.
C10_ConfigErrorsFailFast ==
  (/\ pc \in {"loop", "done"}
   /\ \/ KindOf(fsAtStart, cfg.inputDir) # "dir"
      \/ filteredFiles = <<>>)
    => /\ pc = "done"
       /\ errorsShown = 1
       /\ log = <<>>
       /\ fs = fsAtStart
       /\ processedCount = 0 /\ skippedCount = 0 /\ failures = <<>>

C10_Witness ==
  /\ pc = "done"
  /\ KindOf(fsAtStart, cfg.inputDir) = "dir"
  /\ walkResult.ok
  /\ walkResult.files # <<>>
  /\ filteredFiles = <<>>
  /\ errorsShown = 1

\* position of x in a sequence without repetitions, 0 when x is not in it
PosIn(q, x) ==
  IF \E i \in 1..Len(q) : q[i] = x THEN CHOOSE i \in 1..Len(q) : q[i] = x ELSE 0

\* the elements of q are elements of r, in the order they have in r
InOrderOf(q, r) ==
  /\ \A i \in 1..Len(q) : PosIn(r, q[i]) > 0
  /\ \A i, j \in 1..Len(q) : i < j => PosIn(r, q[i]) < PosIn(r, q[j])

\* the visited tasks that have failed, in the order of their visits
FailedVisits == SelectSeq(log, LAMBDA e : e.result = "failed")

\* C22: the task list holds files of the walk in the walk's order, the tasks
\* are visited in list order without a gap, and failures holds the failed
\* tasks in that same order.
C22_OrderPreserved ==
  pc \in {"loop", "done"} =>
    /\ InOrderOf(filteredFiles, walkResult.files)
    /\ Len(log) <= Len(filteredFiles)
    /\ \A i \in 1..Len(log) : log[i].file = filteredFiles[i]
    /\ Len(failures) = Len(FailedVisits)
    /\ \A j \in 1..Len(failures) : failures[j].file = FailedVisits[j].file
    /\ InOrderOf([j \in 1..Len(failures) |-> failures[j].file], filteredFiles)

\* both tasks of a list of two failed, the first at the engine and the
\* second at the write, and failures holds them in list order
C22_Witness ==
  /\ pc = "done"
  /\ Len(filteredFiles) = 2
  /\ Len(failures) = 2
  /\ failures[1] = [file |-> filteredFiles[1], error |-> "engine"]
  /\ failures[2] = [file |-> filteredFiles[2], error |-> "write"]
  /\ LexLess(filteredFiles[1], filteredFiles[2])

\* the filter dropped the first file of the walk and kept the second
C22_FilteredReached ==
  /\ pc = "done"
  /\ Len(walkResult.files) = 2
  /\ filteredFiles = <<walkResult.files[2]>>
  /\ Len(log) = 1

\* calls of openpgp.decryptKey made during the first n visits of the run
RECURSIVE UnlocksUpTo(_)
UnlocksUpTo(n) == IF n = 0 THEN 0 ELSE UnlocksUpTo(n - 1) + log[n].unlocks

\* C23: in one run the private key is unlocked at most once, however many
\* files the run processes.
C23_KeyUnlockedOncePerRun ==
  pc \in {"loop", "done"} => UnlocksUpTo(Len(log)) <= 1

\* the output the i-th visit stored is in place, complete
OutputIntact(i) ==
  /\ Exists(fs, log[i].outputPath)
  /\ fs[log[i].outputPath] = File("out", log[i].file)

\* C24: when the run ends, the output of every task counted as processed
\* exists and holds what that task wrote, whatever happened to the other
\* tasks.
C24_FailureIsolation ==
  pc = "done" =>
    \A i \in 1..Len(log) : log[i].result = "processed" => OutputIntact(i)

\* a task was processed, a later task failed in the middle of its write, and
\* the first task's output no longer holds what it wrote
C24_CorruptedByFailure ==
  /\ pc = "done"
  /\ Len(log) = 2
  /\ log[1].result = "processed"
  /\ log[2].result = "failed"
  /\ log[2].stored = "partial"
  /\ ~OutputIntact(1)

\* the i-th visited file was decrypted and written, and the engine reported
\* its signature as not verified
BadSignature(i) == log[i].env = "badSignature"

\* C25: in a folder decryption with signature verification, a file that is
\* decrypted and written but whose signature does not verify is counted as
\* decrypted, is listed in signatureFailures and has no entry in failures;
\* signatureFailures lists exactly these files, in visit order, so each of
\* its paths is the path of a file counted as decrypted.
C25_SignatureFailuresSeparate ==
  (pc \in {"loop", "done"} /\ cfg.op = "decrypt" /\ cfg.verifySignatures) =>
    /\ \A i \in 1..Len(log) :
         BadSignature(i) =>
           /\ log[i].result = "processed"
           /\ log[i].stored = "out"
           /\ \E k \in 1..Len(signatureFailures) : signatureFailures[k] = log[i].file
           /\ \A j \in 1..Len(failures) : failures[j].file # log[i].file
    /\ signatureFailures =
         [k \in 1..Len(SelectSeq(log, LAMBDA e : e.env = "badSignature")) |->
            SelectSeq(log, LAMBDA e : e.env = "badSignature")[k].file]
    /\ \A k \in 1..Len(signatureFailures) :
         \E i \in 1..Len(log) :
           log[i].file = signatureFailures[k] /\ log[i].result = "processed"
    /\ Len(signatureFailures) <= processedCount

\* of two files, the first was decrypted with a signature that did not
\* verify and the second failed in the engine
C25_Witness ==
  /\ pc = "done"
  /\ cfg.op = "decrypt"
  /\ cfg.verifySignatures
  /\ Len(log) = 2
  /\ BadSignature(1)
  /\ log[2].env = "engineErr"
  /\ processedCount = 1
  /\ signatureFailures = <<filteredFiles[1]>>
  /\ failures = << [file |-> filteredFiles[2], error |-> "engine"] >>

\* number of visits so far with the given result
Visits(result) == Len(SelectSeq(log, LAMBDA e : e.result = result))

\* the files of the visits so far with the given result
VisitedWith(result) ==
  {log[i].file : i \in {k \in 1..Len(log) : log[k].result = result}}

\* C27: every visited task is in exactly one tally: processedCount counts
\* the tasks whose engine call and whose write both succeeded, skippedCount
\* the skipped ones, failures the others; a counted task is neither skipped
\* nor in failures, and no task is visited or counted twice.
C27_OneTallyPerTask ==
  pc \in {"loop", "done"} =>
    /\ processedCount = Visits("processed")
    /\ skippedCount = Visits("skipped")
    /\ Len(failures) = Visits("failed")
    /\ processedCount + skippedCount + Len(failures) = Len(log)
    /\ \A i \in 1..Len(log) :
         /\ log[i].result \in {"processed", "skipped", "failed"}
         /\ log[i].result = "processed" <=>
              (log[i].engine /\ log[i].wrote /\ log[i].error = ""
               /\ log[i].stored = "out")
         /\ log[i].result = "skipped" => ~log[i].engine /\ ~log[i].wrote
         /\ log[i].result = "processed" =>
              \A j \in 1..Len(failures) : failures[j].file # log[i].file
         /\ \A k \in 1..Len(log) : k # i => log[k].file # log[i].file
    /\ {failures[j].file : j \in 1..Len(failures)} = VisitedWith("failed")

\* a run of two tasks under policy skip: the first skipped, the write of the
\* second failed midway; nothing was counted as processed
C27_Witness ==
  /\ pc = "done"
  /\ Len(log) = 2
  /\ log[1].result = "skipped"
  /\ log[2].env = "writeErrPartial"
  /\ processedCount = 0
  /\ skippedCount = 1
  /\ Len(failures) = 1

\* a run of two tasks under policy abort: the first processed, the second
\* hit an existing output and went to failures
C27_AbortCounted ==
  /\ pc = "done"
  /\ Len(log) = 2
  /\ log[1].result = "processed"
  /\ log[2].aborted
  /\ processedCount = 1
  /\ Len(failures) = 1

\* ------------------------------------------------------------------------
\* Properties of the output names
\* ------------------------------------------------------------------------

\* the path named rel below the directory dir
Under(dir, rel) ==
  IF dir = <<sep>> THEN dir \o rel ELSE dir \o <<sep>> \o rel

\* what follows the directory dir and its separator in filePath
RelOf(dir, filePath) == SubSeq(filePath, Len(dir) + 2, Len(filePath))

\* C11: in folder encryption the output path of every visited file is the
\* output root, a separator, the file's path below the input root with all
\* its directory segments, and ".asc" (armored) or ".pgp" (binary).
C11_EncryptOutputPath ==
  cfg.op = "encrypt" =>
    \A i \in 1..Len(log) :
      /\ startsWith(log[i].file, cfg.inputDir \o <<sep>>)
      /\ log[i].outputPath =
           Under(cfg.outputDir, RelOf(cfg.inputDir, log[i].file))
             \o (IF cfg.format = "armored" THEN <<".", "a", "s", "c">>
                 ELSE <<".", "p", "g", "p">>)

\* an armored folder encryption of {a.txt, s/b.asc} gave a.txt.asc and
\* s/b.asc.asc below the output root
C11_Witness ==
  /\ cfg.op = "encrypt"
  /\ cfg.format = "armored"
  /\ pc = "done"
  /\ Len(log) = 2
  /\ log[1].file = P_a
  /\ log[1].outputPath = cfg.outputDir \o <<sep, "a", ".", "t", "x", "t", ".", "a", "s", "c">>
  /\ log[2].file = P_b
  /\ log[2].outputPath = cfg.outputDir \o <<sep, "s", sep, "b", ".", "a", "s", "c", ".", "a", "s", "c">>
  /\ log[2].result = "processed"

\* the two spellings of a letter of the encrypted extensions
EitherCase(c) ==
  CASE c = "a" -> {"a", "A"}
    [] c = "c" -> {"c", "C"}
    [] c = "g" -> {"g", "G"}
    [] c = "p" -> {"p", "P"}
    [] c = "s" -> {"s", "S"}
    [] OTHER -> {c}

\* s ends with suffix, letters compared without regard to case
EndsWithAnyCase(s, suffix) ==
  /\ Len(suffix) <= Len(s)
  /\ \A k \in 1..Len(suffix) :
       s[Len(s) - Len(suffix) + k] \in EitherCase(suffix[k])

EncryptedSuffixes ==
  { <<".", "p", "g", "p">>, <<".", "g", "p", "g">>, <<".", "a", "s", "c">> }

\* position of the last separator of a path, 0 when it has none
LastSepOf(rel) ==
  IF \E i \in 1..Len(rel) : rel[i] = sep
  THEN CHOOSE i \in 1..Len(rel) :
         rel[i] = sep /\ \A j \in (i + 1)..Len(rel) : rel[j] # sep
  ELSE 0

\* the final segment of a path and the directory segments before it
FinalSegment(rel) == SubSeq(rel, LastSepOf(rel) + 1, Len(rel))

DirPart(rel) == SubSeq(rel, 1, LastSepOf(rel))

\* the name a decrypted file gets from the name of the encrypted file
DecryptedName(name) ==
  IF \E x \in EncryptedSuffixes : EndsWithAnyCase(name, x)
  THEN SubSeq(name, 1, Len(name) - 4)
  ELSE name \o <<".", "d", "e", "c", "r", "y", "p", "t", "e", "d">>

\* C12: in folder decryption the output path of a task is the output root
\* followed by the task's path below the input root, its directory segments
\* unchanged and its final segment with one trailing ".pgp", ".gpg" or ".asc"
\* (in any case) removed, or with ".decrypted" added when it ends with none.
C12_DecryptOutputPath ==
  fnCall.fn = "decryptOutputPath" =>
    /\ fnCall.result =
         Under(fnCall.outputDir,
               DirPart(RelOf(P_t, fnPath))
                 \o DecryptedName(FinalSegment(RelOf(P_t, fnPath))))
    /\ DecryptedName(FinalSegment(RelOf(P_t, fnPath))) # <<>>

\* s/d.ASC, taken as a task, was named s/d below the output root
C12_Witness ==
  /\ fnCall.fn = "decryptOutputPath"
  /\ fnPath = F_d_ASC
  /\ fnCall.outputDir = P_o
  /\ fnCall.result = P_o \o <<sep, "s", sep, "d">>

\* a.txt, let in by a typed filter, was named a.txt.decrypted
C12_FallbackReached ==
  /\ fnCall.fn = "decryptOutputPath"
  /\ fnPath = P_a
  /\ fnCall.outputDir = P_x
  /\ fnCall.result = P_x \o <<sep, "a", ".", "t", "x", "t">>
                         \o <<".", "d", "e", "c", "r", "y", "p", "t", "e", "d">>

\* C13: the decryption naming applied to the encryption naming's output of a
\* file gives the file's own relative path again, for both output formats.
C13_NamingRoundTrips ==
  fnCall.fn = "roundTrip" =>
    fnCall.result = Under(fnCall.outputDir, RelOf(P_t, fnPath))

\* s/b.asc went through s/b.asc.pgp and came back as s/b.asc
C13_Witness ==
  /\ fnCall.fn = "roundTrip"
  /\ fnPath = P_b
  /\ fnCall.format = "binary"
  /\ fnCall.encrypted = P_o \o <<sep, "s", sep, "b", ".", "a", "s", "c", ".", "p", "g", "p">>
  /\ fnCall.result = P_x \o <<sep, "s", sep, "b", ".", "a", "s", "c">>

\* C28: in the task list of a folder operation no output path is the input
\* path of a task, wherever the output root lies.
C28_OutputsDisjointFromInputs ==
  fnCall.fn = "taskList" =>
    \A i, j \in 1..Len(fnCall.result) :
      fnCall.result[i].outputPath # fnCall.result[j].inputPath

\* the same for every output root but the root of the file system
C28_ExceptFileSystemRoot ==
  (fnCall.fn = "taskList" /\ fnCall.outputDir # <<sep>>) =>
    \A i, j \in 1..Len(fnCall.result) :
      fnCall.result[i].outputPath # fnCall.result[j].inputPath

\* a decryption of /t into / has the tasks /t/c.pgp and /t/t/c.pgp.pgp, and
\* the output path of the second is the input path of the first
C28_OutputIsInput ==
  /\ fnCall.fn = "taskList"
  /\ fnCall.op = "decrypt"
  /\ fnCall.outputDir = <<sep>>
  /\ Len(fnCall.result) = 2
  /\ fnCall.result[1].inputPath = P_c
  /\ fnCall.result[2].inputPath = F_tt_c
  /\ fnCall.result[2].outputPath = P_c

\* C14: in a run whose collision policy is not Overwrite, no two visited
\* files have the same output path.
C14_MappingInjective ==
  (cfg.op # "none" /\ cfg.outputPolicy # "overwrite") =>
    \A i, j \in 1..Len(log) :
      log[i].file # log[j].file => log[i].outputPath # log[j].outputPath

\* C15: the default output path suggested for the single-file decryption of
\* a path is what the folder decryption's stripEncryptedExtension returns
\* for the same path.
C15_SuggestEqualsStrip ==
  fnCall.fn = "suggestDecryptedOutputPath" =>
    fnCall.result = stripEncryptedExtension(fnCall.arg)

\* the suggestion for /t/s/d.ASC was /t/s/d
C15_Witness ==
  /\ fnCall.fn = "suggestDecryptedOutputPath"
  /\ fnCall.arg = F_d_ASC
  /\ fnCall.result = P_s \o <<sep, "d">>

\* the final segment of filePath has an extension spelled ext in some case
HasExtension(filePath, ext) ==
  /\ EndsWithAnyCase(FinalSegment(filePath), ext)
  /\ Len(FinalSegment(filePath)) > Len(ext)

\* C16: resolveInputFormat returns the forced mode when the mode is armored
\* or binary; in auto mode it returns armored exactly for a file whose
\* extension is ".asc" in any case, and binary for every other file.
C16_ResolveInputFormat ==
  fnCall.fn = "resolveInputFormat" =>
    fnCall.result =
      (CASE fnCall.mode = "armored" -> "armored"
         [] fnCall.mode = "binary" -> "binary"
         [] OTHER -> IF HasExtension(fnPath, <<".", "a", "s", "c">>)
                     THEN "armored" ELSE "binary")

\* s/d.ASC was resolved to armored in auto mode
C16_Witness ==
  /\ fnCall.fn = "resolveInputFormat"
  /\ fnCall.mode = "auto"
  /\ fnPath = F_d_ASC
  /\ fnCall.result = "armored"

\* c.Gpg was resolved to binary in auto mode
C16_BinaryReached ==
  /\ fnCall.fn = "resolveInputFormat"
  /\ fnCall.mode = "auto"
  /\ fnPath = F_c_gpg
  /\ fnCall.result = "binary"

\* the pieces of s between commas, as pairs <<first, last>> of positions
\* (last = first - 1 for an empty piece)
TokenBounds(s) ==
  {b \in (1..(Len(s) + 1)) \X (0..Len(s)) :
     /\ b[2] >= b[1] - 1
     /\ (b[1] = 1 \/ s[b[1] - 1] = ",")
     /\ (b[2] = Len(s) \/ s[b[2] + 1] = ",")
     /\ \A k \in b[1]..b[2] : s[k] # ","}

\* the positions of a piece that hold no blank
Inked(s, b) == {k \in b[1]..b[2] : s[k] # " "}

\* a piece without the blanks around it
Trimmed(s, b) ==
  IF Inked(s, b) = {} THEN <<>>
  ELSE SubSeq(s, CHOOSE k \in Inked(s, b) : \A m \in Inked(s, b) : k <= m,
                 CHOOSE k \in Inked(s, b) : \A m \in Inked(s, b) : k >= m)

\* the pieces that are not blank, and the k-th of them from the left
Kept(s) == {b \in TokenBounds(s) : Inked(s, b) # {}}

KthKept(s, k) ==
  CHOOSE b \in Kept(s) : Cardinality({c \in Kept(s) : c[1] < b[1]}) = k - 1

UpperLetters == {"A", "C", "D", "F", "G", "P", "S", "T", "X"}

LowerOf ==
  [A |-> "a", C |-> "c", D |-> "d", F |-> "f", G |-> "g", P |-> "p", S |-> "s",
   T |-> "t", X |-> "x"]

\* a token in lower case, with a leading "." when it had none
Normal(tok) ==
  LET low == [i \in 1..Len(tok) |->
                IF tok[i] \in UpperLetters THEN LowerOf[tok[i]] ELSE tok[i]]
  IN IF low[1] = "." THEN low ELSE <<".">> \o low

\* C17: parseExtensionFilter returns the defaults when the input holds no
\* token besides blanks and commas; otherwise it returns, in order, each
\* non-blank comma-separated token trimmed, lower-cased and given a leading
\* "." if it had none; " .PDF, txt " gives ".pdf", ".txt".
C17_ParseExtensionFilter ==
  fnCall.fn = "parseExtensionFilter" =>
    IF Kept(fnFilter) = {} THEN fnCall.result = fnCall.defaults
    ELSE /\ Len(fnCall.result) = Cardinality(Kept(fnFilter))
         /\ \A k \in 1..Len(fnCall.result) :
              /\ fnCall.result[k] = Normal(Trimmed(fnFilter, KthKept(fnFilter, k)))
              /\ fnCall.result[k][1] = "."
              /\ \A i \in 1..Len(fnCall.result[k]) :
                   fnCall.result[k][i] \notin UpperLetters \cup {" ", ","}
         /\ fnFilter = <<" ", ".", "P", "D", "F", ",", " ", "t", "x", "t", " ">>
              => fnCall.result = << <<".", "p", "d", "f">>, <<".", "t", "x", "t">> >>

\* " .PDF, txt " was parsed to ".pdf", ".txt" although defaults were given
C17_Witness ==
  /\ fnCall.fn = "parseExtensionFilter"
  /\ fnFilter = In_pdf
  /\ fnCall.defaults # <<>>
  /\ fnCall.result = << <<".", "p", "d", "f">>, <<".", "t", "x", "t">> >>

\* ",," was parsed to the defaults
C17_DefaultsReached ==
  /\ fnCall.fn = "parseExtensionFilter"
  /\ fnFilter = In_commas
  /\ fnCall.defaults = defaultFilter("auto")
  /\ fnCall.result = fnCall.defaults

\* ------------------------------------------------------------------------
\* Properties of writeOutputToFile (SpecStream)
\* ------------------------------------------------------------------------

\* number of events named e among the first n events of the call
CountEv(e, n) == Cardinality({i \in 1..n : wlog[i].ev = e})

\* chunks with a value pulled from the source among the first n events
DataPulls(n) ==
  Cardinality({i \in 1..n : wlog[i].ev = "pull" /\ wlog[i].how # "none"})

\* C18: at every moment of the streaming loop at most one chunk has been
\* pulled from the source and not acknowledged by the writer, and every
\* read is issued when all chunks pulled before it are acknowledged.
C18_OneChunkInFlight ==
  \A n \in 1..Len(wlog) :
    /\ DataPulls(n) - CountEv("ack", n) <= 1
    /\ wlog[n].ev = "read" => DataPulls(n) = CountEv("ack", n)

\* two chunks were written, one acknowledged by a promise, and the stream
\* was read to its end
C18_Witness ==
  /\ wpc = "returned"
  /\ DataPulls(Len(wlog)) = 2
  /\ CountEv("ack", Len(wlog)) = 2
  /\ \E i \in 1..Len(wlog) : wlog[i].ev = "ack" /\ wlog[i].how = "promise"
  /\ \E i \in 1..Len(wlog) : wlog[i].ev = "ack" /\ wlog[i].how = "number"

\* the call is over
Left == wpc \in {"returned", "threw"}

\* the reader and the writer were acquired
Acquired == \E i \in 1..Len(wlog) : wlog[i].ev = "acquire"

\* C19: when a call that acquired the reader and the writer is over, the
\* reader is released and the writer ended, whether the stream was
\* exhausted, a read failed or a write failed; the release and the end
\* happen once and no read or write follows them.
C19_ReleasedOnEveryExit ==
  /\ (Left /\ Acquired) =>
       /\ reader = "released"
       /\ writer = "ended"
       /\ CountEv("release", Len(wlog)) = 1
       /\ CountEv("end", Len(wlog)) = 1
  /\ \A i, j \in 1..Len(wlog) :
       (wlog[i].ev \in {"release", "end"} /\ i < j) =>
         wlog[j].ev \notin {"read", "pull", "write"}

\* a call ended by a rejected write released the reader and ended the writer
C19_Witness ==
  /\ wpc = "threw"
  /\ thrown = "write"
  /\ Acquired
  /\ reader = "released"
  /\ writer = "ended"
  /\ \E i \in 1..Len(wlog) : wlog[i].ev = "writeError"

\* the same after a rejected read
C19_ReadFailureReached ==
  /\ wpc = "threw"
  /\ thrown = "read"
  /\ reader = "released"
  /\ writer = "ended"
  /\ CountEv("ack", Len(wlog)) = 1

\* writer.end() threw, or the promise it returned was rejected
EndFailed ==
  \E i \in 1..Len(wlog) :
    \/ wlog[i].ev = "endError"
    \/ wlog[i].ev = "end" /\ wlog[i].how = "throw"

\* the stream was read to its end and every chunk handed to the writer was
\* acknowledged
AllChunksWritten ==
  /\ CountEv("done", Len(wlog)) = 1
  /\ CountEv("write", Len(wlog)) = CountEv("ack", Len(wlog))
  /\ CountEv("writeError", Len(wlog)) = 0

\* C21: when ending the writer fails after every chunk was written, the
\* folder operation's per-file catch gets the error: failures gains the
\* entry of the task's file and processedCount is not incremented.
C21_FinalizeFailureIsFileFailure ==
  (/\ wpc = "resumed"
   /\ isFolderCaller(wcall.caller)
   /\ AllChunksWritten
   /\ EndFailed)
    => /\ failures = << [file |-> TaskFile, error |-> "end"] >>
       /\ processedCount = 0

\* two chunks were written and acknowledged, then the promise of
\* writer.end() was rejected and the folder operation recorded the failure
C21_Witness ==
  /\ wpc = "resumed"
  /\ wcall.caller = "decryptFolder"
  /\ AllChunksWritten
  /\ CountEv("ack", Len(wlog)) = 2
  /\ CountEv("endError", Len(wlog)) = 1
  /\ Len(failures) = 1
  /\ processedCount = 0

\* the same when writer.end() itself throws
C21_EndThrowReached ==
  /\ wpc = "resumed"
  /\ wcall.caller = "encryptFolder"
  /\ AllChunksWritten
  /\ \E i \in 1..Len(wlog) : wlog[i].ev = "end" /\ wlog[i].how = "throw"
  /\ failures = << [file |-> TaskFile, error |-> "end"] >>

\* the call ran the stream branch and returned without error
StreamedOk ==
  /\ wpc \in {"returned", "resumed"}
  /\ thrown = ""
  /\ Acquired

\* the chunks handed to writer.write, in the order of the calls
Handed == 
  [k \in 1..Len(SelectSeq(wlog, LAMBDA e : e.ev = "write")) |->
     SelectSeq(wlog, LAMBDA e : e.ev = "write")[k].chunk]

\* the positions in the source of the chunks of the given kinds, ascending
RECURSIVE ChunksOfKind(_, _)
ChunksOfKind(kinds, n) ==
  IF n = 0 THEN <<>>
  ELSE IF source[n] \in kinds THEN Append(ChunksOfKind(kinds, n - 1), n)
  ELSE ChunksOfKind(kinds, n - 1)

\* every chunk handed to the writer was acknowledged before the writer was
\* ended
EndedAfterLastAck ==
  /\ CountEv("ack", Len(wlog)) = Len(Handed)
  /\ \A i, j \in 1..Len(wlog) :
       (wlog[i].ev = "end" /\ wlog[j].ev \in {"write", "ack"}) => j < i

\* C26 as stated: after a successful call on a streamed artifact the chunks
\* handed to the writer are the non-empty chunks of the source, in order,
\* each once, and the writer was ended after the last acknowledgement.
C26_NonEmptyChunksHanded ==
  StreamedOk =>
    /\ Handed = ChunksOfKind({"data"}, Len(source))
    /\ EndedAfterLastAck

\* C26 amended: the chunks handed to the writer are the chunks of the source
\* whose value is truthy, a chunk of length zero among them, in order, each
\* once; the source was read to its end; the writer was ended after the last
\* acknowledgement. The bytes handed over are those the source produced.
C26_TruthyChunksHanded ==
  StreamedOk =>
    /\ Handed = ChunksOfKind({"data", "empty"}, Len(source))
    /\ pulled = Len(source)
    /\ srcEnd = "done"
    /\ EndedAfterLastAck
    /\ SelectSeq(Handed, LAMBDA k : source[k] = "data")
         = ChunksOfKind({"data"}, Len(source))

\* a source of a chunk without value and a chunk of bytes was written: one
\* chunk handed over, acknowledged by a promise, then the writer ended
C26_Witness ==
  /\ StreamedOk
  /\ source = <<"none", "data">>
  /\ Handed = <<2>>
  /\ \E i \in 1..Len(wlog) : wlog[i].ev = "ack" /\ wlog[i].how = "promise"
  /\ wlog[Len(wlog)].ev = "end"

\* a chunk of length zero was handed to the writer
C26_EmptyChunkHanded ==
  /\ StreamedOk
  /\ source = <<"data", "empty">>
  /\ Handed = <<1, 2>>

\* C20: whenever writeOutputToFile has issued a write to its destination
\* (writeFile or writer.write), the directory of outputPath exists.
C20_DirectoriesEnsured ==
  (\E i \in 1..Len(wlog) : wlog[i].ev \in {"writeFile", "write"}) =>
    isDirectory(fs, dirname(wcall.outputPath))

\* the same for the buffered shapes and for the folder operations only
C20_BufferedOrFolderCaller ==
  (/\ \E i \in 1..Len(wlog) : wlog[i].ev \in {"writeFile", "write"}
   /\ wcall.shape \in {"string", "bytes"} \/ isFolderCaller(wcall.caller)) =>
    isDirectory(fs, dirname(wcall.outputPath))

====
